---- MODULE Spec2Model ----
(***************************************************************************)
(* SimUci: the per-patient stage simulator (uci/simulacion.py), its        *)
(* replication driver (uci/experiment.py) and the parts of the Streamlit   *)
(* script (app.py) that drive them: the global seed configuration and the  *)
(* Wilcoxon comparison tab.                                                *)
(*                                                                         *)
(* uci/distribuciones.py (samplers, clustering), utils/helpers.py          *)
(* (fix_seed, run_experiment) and simuci.stats (Wilcoxon) are imported by  *)
(* the sources but are not part of them; their definitions below follow    *)
(* the written specification and are marked as such.                       *)
(***************************************************************************)
EXTENDS Integers, Sequences, FiniteSets, TLC

VARIABLES
    experiment,     \* the Experiment object: twelve parameters and result
    constructed,    \* the Experiment as its constructor left it
    centroids_ok,   \* the centroid table can be loaded
    rng,            \* the process-wide random source
    pc,             \* position in multiple_replication / single_run / uci
    n_reps,         \* multiple_replication argument
    as_int,         \* multiple_replication argument
    rep,            \* index of the for-loop of multiple_replication
    results,        \* the list `results` of multiple_replication
    df,             \* the DataFrame multiple_replication returns
    cluster,        \* Simulation.cluster of the current run
    post_uci,       \* locals of Simulation.uci
    uci,
    vam,
    pre_vam,
    post_vam,
    attempts,       \* iterations of `for _ in range(1000)` entered so far
    clamped,        \* the for-else branch was taken in the current run
    now,            \* env.now of the current simpy.Environment
    returned,       \* the dicts single_run returned, in call order
    clusters_used,  \* the cluster id each clustering() call produced
    global_sim_seed,\* st.session_state.global_sim_seed
    reseeded,       \* fix_seed ran in the script pass of the running call
    last_call,      \* the latest finished simulation call made under a fixed seed
    df_experiment1, \* Wilcoxon tab: the selected column of the two uploaded
    df_experiment2, \*   experiments (no rows when nothing is uploaded)
    wilcoxon_test,  \* st.session_state.wilcoxon_test
    shown,          \* what the Wilcoxon container rendered in the latest pass
    experiment_dataframes,  \* Friedman tab: the selected column of each uploaded file
    friedman_test_result,   \* st.session_state.friedman_test_result
    fshown,         \* what the Friedman container rendered in the latest pass
    validation,     \* st.session_state.validation
    vpc,            \* position of the script pass in the validation tab
    n_runs_input,   \* the number input "Corridas por paciente"
    val_count,      \* validation runs started so far (the clock of their timestamps)
    vshown,         \* what the validation tab rendered in the latest pass
    true_data,      \* SimulationMetrics.true_data: patients x variables
    simulation_data,\* SimulationMetrics.simulation_data: patients x runs x variables
    simulation_metric,  \* the evaluated metrics (error_margin, coverage_percentage)
    rendered,       \* what render_validation wrote for the error summary and coverage
    secrets,        \* st.secrets as get_drive_service finds it
    libs_installed, \* the Google API packages can be imported
    auth,           \* what building the credentials and the client does
    drive_cache,    \* the value st.cache_resource keeps for get_drive_service
    drive_calls,    \* calls of get_drive_service so far
    drive_result,   \* how the latest call of get_drive_service ended
    folder,         \* the Drive folder: its non-trashed entries in listing order
    dest_file,      \* the local file at dest
    dpc,            \* position of download_file_by_name
    files,          \* what list_files returned
    chunks,         \* chunks next_chunk has fetched
    dl_result,      \* how download_file_by_name ended
    folder_id,      \* st.secrets["google_drive"]["folder_id"] is there
    cen_file,       \* the centroid file at its fixed temp path
    cen_pc,         \* per session: position in get_centroids_path
    cen_seen,       \* per session: what dest_path.exists() answered in the current call
    cen_downloaded, \* per session: the current call opened dest_path for writing
    cen_after,      \* per session: the current call began after some call had returned
    cen_result,     \* per session: how the current call ended, with the file it returned
    cen_succeeded,  \* some call of get_centroids_path has returned its path
    cen_calls,      \* calls of get_centroids_path so far
    mod_pc,         \* position in load_model_from_drive
    tmp_file,       \* the temporary .joblib file of the current call
    unlink_tried,   \* os.unlink(tmp_path) was called in the current call
    mod_pending,    \* what the try block is leaving with
    mod_result,     \* how the latest call of load_model_from_drive ended
    mod_cache,      \* a model st.cache_resource keeps
    mod_calls,      \* calls of load_model_from_drive so far
    df_result,      \* st.session_state.df_result
    sim_sample_size,\* st.session_state.sim_sample_size
    prediction,     \* st.session_state.prediction_classes / prediction_percentage
    sim_pass,       \* what the latest pass over the simulation tab did
    sim_presses,    \* presses of "Realizar Simulación" so far
    df_sim_real_data, \* st.session_state.df_sim_real_data
    prev_selection, \* st.session_state.prev_selection
    patient_data,   \* st.session_state.patient_data
    rerun_enabled,  \* the re-run button as the latest pass drew it
    rd_pass,        \* what the latest pass over the real-data tab did
    rd_passes       \* passes over the real-data tab so far

simVars == <<experiment, constructed, centroids_ok, rng, pc, n_reps, as_int, rep,
             results, df, cluster, post_uci, uci, vam, pre_vam, post_vam,
             attempts, clamped, now, returned, clusters_used>>
appVars == <<global_sim_seed, reseeded, last_call>>
wilVars == <<df_experiment1, df_experiment2, wilcoxon_test, shown>>
friVars == <<experiment_dataframes, friedman_test_result, fshown>>
valVars == <<validation, vpc, n_runs_input, val_count, vshown>>
metVars == <<true_data, simulation_data, simulation_metric, rendered>>
drvVars == <<secrets, libs_installed, auth, drive_cache, drive_calls, drive_result>>
dlVars == <<folder, dest_file, dpc, files, chunks, dl_result>>
cenVars ==
    <<folder_id, cen_file, cen_pc, cen_seen, cen_downloaded, cen_after, cen_result,
      cen_succeeded, cen_calls>>
modVars == <<mod_pc, tmp_file, unlink_tried, mod_pending, mod_result, mod_cache, mod_calls>>
stVars == <<df_result, sim_sample_size, prediction, sim_pass, sim_presses>>
rdVars ==
    <<df_sim_real_data, prev_selection, patient_data, rerun_enabled, rd_pass, rd_passes>>
ldrVars == <<cenVars, modVars, stVars, rdVars>>
tabVars == <<wilVars, friVars, valVars, metVars, drvVars, dlVars, ldrVars>>
notWil == <<simVars, appVars, friVars, valVars, metVars, drvVars, dlVars, ldrVars>>
notFri == <<simVars, appVars, wilVars, valVars, metVars, drvVars, dlVars, ldrVars>>
notVal == <<wilVars, friVars, metVars, drvVars, dlVars, ldrVars>>
notMet == <<simVars, appVars, wilVars, friVars, valVars, drvVars, dlVars, ldrVars>>
notDrv == <<simVars, appVars, wilVars, friVars, valVars, metVars, dlVars, ldrVars>>
notDl == <<simVars, appVars, wilVars, friVars, valVars, metVars, drvVars, ldrVars>>
notLdr == <<simVars, appVars, wilVars, friVars, valVars, metVars, drvVars>>
vars == <<simVars, appVars, tabVars>>

-----------------------------------------------------------------------------
(* Bounds of the model *)

MaxDur == 2       \* largest duration a sampler returns
MaxRuns == 2      \* largest n_reps
MaxSeed == 2      \* largest seed typed into the sidebar
MaxLen == 2       \* longest uploaded experiment column

-----------------------------------------------------------------------------
(* utils/constants/experiment.py *)

EXPERIMENT_VARIABLES_LABELS ==
    <<"Tiempo Pre VAM", "Tiempo VAM", "Tiempo Post VAM", "Estadia UCI", "Estadia Post UCI">>

Labels == {EXPERIMENT_VARIABLES_LABELS[i] : i \in DOMAIN EXPERIMENT_VARIABLES_LABELS}

-----------------------------------------------------------------------------
(* Experiment (uci/experiment.py) *)

ParamFields == {"edad", "diagn1", "diagn2", "diagn3", "diagn4", "apache", "insuf_resp",
                "va", "estadia_uti", "tiempo_vam", "tiempo_pre_uti", "porciento"}

EmptyDict == [k \in {} |-> 0]

\* Experiment.__init__: the twelve parameters are stored, result is the empty dict.
NewExperiment(age, d1, d2, d3, d4, apache, resp, va, uti_stay, vam_time, preuti, percent) ==
    [edad |-> age, diagn1 |-> d1, diagn2 |-> d2, diagn3 |-> d3, diagn4 |-> d4,
     apache |-> apache, insuf_resp |-> resp, va |-> va, estadia_uti |-> uti_stay,
     tiempo_vam |-> vam_time, tiempo_pre_uti |-> preuti, porciento |-> percent,
     result |-> EmptyDict]

\* variant: the result dict of the run before is kept
init_results_variables_kept(e) == e

\* Experiment.init_results_variables
init_results_variables(e) == [e EXCEPT !.result = [k \in Labels |-> 0]]

Params(e) == [f \in ParamFields |-> e[f]]

\* The percent values tried: the constructor accepts any integer.
PercentSet == {-200, -50, 50, 100, 200}

\* Two patients, one near each centroid.
Patients == {<<50, 1, 0, 0, 0, 20, 1, 1, 1, 1, 0>>,
             <<50, 2, 1, 0, 0, 20, 2, 2, 3, 2, 1>>}

Experiments ==
    {NewExperiment(p[1], p[2], p[3], p[4], p[5], p[6], p[7], p[8], p[9], p[10], p[11], q) :
        p \in Patients, q \in PercentSet}

-----------------------------------------------------------------------------
(* Python arithmetic *)

\* int(n / d) for integers n and d > 0: the quotient truncated toward zero.
PyInt(n, d) == IF n >= 0 THEN n \div d ELSE -((-n) \div d)

-----------------------------------------------------------------------------
(* uci/distribuciones.py: clustering and the duration samplers.            *)
(* The file is not among the sources; these follow sections 4.1, 4.2 and 6 *)
(* of the specification: a nearest-centroid classifier over the eleven     *)
(* covariates, one non-negative sampler per stage and cluster, and a       *)
(* process-wide random source with a reseed operation.                     *)

Centroids == << <<50, 1, 0, 0, 0, 20, 1, 1, 1, 0, 0>>,
                <<50, 2, 1, 0, 0, 20, 2, 2, 4, 2, 1>> >>

RECURSIVE Dist2(_, _, _)
Dist2(a, b, i) ==
    IF i > Len(a) THEN 0 ELSE (a[i] - b[i]) * (a[i] - b[i]) + Dist2(a, b, i + 1)

\* id of the nearest centroid, the first one on a tie
clustering(edad, d1, d2, d3, d4, apache, insuf, va, est_uti, t_vam, t_pre_uti) ==
    LET v == <<edad, d1, d2, d3, d4, apache, insuf, va, est_uti, t_vam, t_pre_uti>>
        best == CHOOSE i \in DOMAIN Centroids :
                    \A j \in DOMAIN Centroids :
                        \/ Dist2(v, Centroids[i], 1) < Dist2(v, Centroids[j], 1)
                        \/ Dist2(v, Centroids[i], 1) = Dist2(v, Centroids[j], 1) /\ i <= j
    IN  best - 1

Stages == {"post_uci", "uci", "vam"}

\* The values a sampler can return, in half hours (a sampler returns a real number;
\* the caller truncates it with int()).  Cluster 1 is the cluster of the longer stays.
SupportLo(stage, c) == 2 * c
SupportHi(stage, c) == IF stage = "post_uci" THEN 2 * c + 3 ELSE 2 * MaxDur + 1
Support(stage, c) == SupportLo(stage, c) .. SupportHi(stage, c)

\* The random source: either a generator in a known state x, or one whose state is
\* not known (never seeded by the program), whose draws can be any value.
GenM == 11
GenA == 2
StageShift(stage, c) ==
    CASE stage = "post_uci" -> 0 [] stage = "uci" -> 2 - c [] stage = "vam" -> 1 + 2 * c

\* inverse-CDF sampling: the generator state selects a value of the support
Sample(stage, c, x) ==
    SupportLo(stage, c)
        + (((x + StageShift(stage, c)) * (x + 1)) % (SupportHi(stage, c) - SupportLo(stage, c) + 1))

Draws(stage, c, r) == IF r.seeded THEN {Sample(stage, c, r.x)} ELSE Support(stage, c)

Advance(r) == IF r.seeded THEN [r EXCEPT !.x = (GenA * r.x) % GenM] ELSE r

\* utils/helpers.py fix_seed(seed): reseed the process-wide random source
fix_seed(seed) == [seeded |-> TRUE, x |-> seed % GenM]

Unseeded == [seeded |-> FALSE, x |-> 0]

-----------------------------------------------------------------------------
(* Simulation.uci (uci/simulacion.py) *)

MaxAttempts == 1000

\* variant: a draw equal to the UCI stay is refused
VamAcceptedStrict(v, u) == v < u

\* line 39: the draw is kept when it does not exceed the UCI stay
VamAccepted(v, u) == v <= u

\* variant: math.floor instead of int
PreVamFloor(u, v, porciento) == ((u - v) * porciento) \div 100

\* line 44
PreVam(u, v, porciento) == PyInt((u - v) * porciento, 100)

\* variant: the pre-VAM time is not subtracted
PostVamNoPre(u, pre, v) == u - v

\* line 45
PostVam(u, pre, v) == u - pre - v

\* variant: the UCI stay is also written to the parameter of the similar name
StoreResultClobber(e, pre, v, post, u, postu) ==
    [e EXCEPT !.estadia_uti = u,
              !.result = [@ EXCEPT !["Tiempo Pre VAM"] = pre,
                                   !["Tiempo VAM"] = v,
                                   !["Tiempo Post VAM"] = post,
                                   !["Estadia UCI"] = u,
                                   !["Estadia Post UCI"] = postu]]

\* lines 47-51
StoreResult(e, pre, v, post, u, postu) ==
    [e EXCEPT !.result = [@ EXCEPT !["Tiempo Pre VAM"] = pre,
                                   !["Tiempo VAM"] = v,
                                   !["Tiempo Post VAM"] = post,
                                   !["Estadia UCI"] = u,
                                   !["Estadia Post UCI"] = postu]]

\* simpy's Timeout refuses a negative delay with ValueError
TimeoutOk(delay) == delay >= 0

-----------------------------------------------------------------------------
(* multiple_replication (uci/experiment.py) *)

\* A value of the dict single_run returns: a Python int, or (for the conversion of
\* lines 113-119 taken on its own) a value float() refuses or a float that is no number
PyValue(n) == [kind |-> "int", n |-> n]
PyText == [kind |-> "text", n |-> 0]
PyNone == [kind |-> "none", n |-> 0]
PyNaN == [kind |-> "nan", n |-> 0]
PyDict(d) == [k \in DOMAIN d |-> PyValue(d[k])]

\* line 115: float(value)
FloatOf(value) ==
    CASE value.kind = "int" -> [ok |-> TRUE, nan |-> FALSE, n |-> value.n]
      [] value.kind = "nan" -> [ok |-> TRUE, nan |-> TRUE, n |-> 0]
      [] value.kind = "text" -> [ok |-> FALSE, error |-> "ValueError"]
      [] value.kind = "none" -> [ok |-> FALSE, error |-> "TypeError"]

\* variant: only ValueError is caught
CaughtValueErrorOnly(error) == error = "ValueError"

\* line 116: except (ValueError, TypeError)
Caught(error) == error \in {"ValueError", "TypeError"}

\* lines 114-119: val = float(value), 0.0 when that fails; int(val) when as_int, which
\* raises ValueError for a NaN
Cell(value, asInt) ==
    LET f == FloatOf(value) IN
    IF ~f.ok /\ ~Caught(f.error) THEN [t |-> "raise", error |-> f.error]
    ELSE LET val == IF f.ok THEN f ELSE [ok |-> TRUE, nan |-> FALSE, n |-> 0] IN
         IF asInt
         THEN IF val.nan THEN [t |-> "raise", error |-> "ValueError"]
              ELSE [t |-> "int", v |-> val.n, nan |-> FALSE]
         ELSE [t |-> "float", v |-> val.n, nan |-> val.nan]

ToRow(raw, asInt) == [k \in DOMAIN raw |-> Cell(raw[k], asInt)]

\* an exception left the loop body of lines 113-119
RowRaises(row) == \E k \in DOMAIN row : row[k].t = "raise"

NoTable == [made |-> FALSE, columns |-> <<>>, rows |-> <<>>, dtypes |-> EmptyDict]

IsLabelOf(row, k) == k \in DOMAIN row

\* line 122: the dtype pd.DataFrame gives a column of Python ints or floats
InferredDtype(rs, k) ==
    IF \A i \in DOMAIN rs : rs[i][k].t = "int" THEN "int64" ELSE "float64"

\* line 125: fillna(0)
FillNa(c) == IF c.nan THEN 0 ELSE c.v

\* variant: the target is int64 whatever as_int says
TargetDtypeInt(asInt) == "int64"

\* line 126
TargetDtype(asInt) == IF asInt THEN "int64" ELSE "float64"

\* lines 127-128: pd.to_numeric(...).astype(target_dtype) of a numeric column
AsType(dtype, target) == IF dtype = target THEN dtype ELSE target

\* lines 122-128: pd.DataFrame(results), fillna, astype(target_dtype) on every column
BuildFrame(rs, asInt) ==
    LET cols == IF rs = <<>> THEN <<>>
                ELSE SelectSeq(EXPERIMENT_VARIABLES_LABELS, LAMBDA k : IsLabelOf(rs[1], k))
        names == {cols[j] : j \in DOMAIN cols}
    IN  [made |-> TRUE, columns |-> cols,
         rows |-> [i \in DOMAIN rs |-> [k \in DOMAIN rs[i] |-> FillNa(rs[i][k])]],
         dtypes |-> [k \in names |-> AsType(InferredDtype(rs, k), TargetDtype(asInt))]]

-----------------------------------------------------------------------------
(* One call of multiple_replication, step by step *)

locals == <<cluster, post_uci, uci, vam, pre_vam, post_vam, attempts, clamped, now>>
callArgs == <<constructed, centroids_ok, n_reps, as_int>>

LocalsCleared ==
    /\ cluster' = 0 /\ post_uci' = 0 /\ uci' = 0 /\ vam' = 0 /\ pre_vam' = 0
    /\ post_vam' = 0 /\ attempts' = 0 /\ clamped' = FALSE /\ now' = 0

\* variant: the failed run is skipped (try/except: continue around single_run)
RunSkipped ==
    /\ pc' = "mr_loop"
    /\ rep' = rep + 1
    /\ LocalsCleared
    /\ UNCHANGED <<experiment, rng, results, df, returned, clusters_used, callArgs,
                   appVars, tabVars>>

\* An exception raised inside single_run: neither single_run nor multiple_replication
\* catches it (experiment.py lines 110-111), so the call ends without a return value.
RunFails ==
    /\ pc' = "raised"
    /\ UNCHANGED <<experiment, rng, rep, results, df, returned, clusters_used,
                   locals, callArgs, appVars, tabVars>>

\* experiment.py lines 110-111, 69-70: the loop calls single_run, which creates the
\* environment and resets the result dict
SingleRunStart ==
    /\ pc = "mr_loop"
    /\ rep < n_reps
    /\ experiment' = init_results_variables(experiment)
    /\ now' = 0
    /\ pc' = "sr_cluster"
    /\ UNCHANGED <<rng, rep, results, df, returned, clusters_used, cluster, post_uci, uci,
                   vam, pre_vam, post_vam, attempts, clamped, callArgs, appVars, tabVars>>

\* experiment.py lines 72-86: clustering(...) and Simulation(experiment, cluster)
Clustering ==
    /\ pc = "sr_cluster"
    /\ IF centroids_ok
       THEN /\ cluster' = clustering(experiment.edad, experiment.diagn1, experiment.diagn2,
                                     experiment.diagn3, experiment.diagn4, experiment.apache,
                                     experiment.insuf_resp, experiment.va,
                                     experiment.estadia_uti, experiment.tiempo_vam,
                                     experiment.tiempo_pre_uti)
            /\ clusters_used' = Append(clusters_used, cluster')
            /\ pc' = "uci_post_uci"
            /\ UNCHANGED <<experiment, rng, rep, results, df, returned, post_uci, uci, vam,
                           pre_vam, post_vam, attempts, clamped, now, callArgs, appVars,
                           tabVars>>
       ELSE RunFails

\* variant: the ICU stay is drawn where the post-ICU stay should be
DrawUciFirst ==
    /\ pc = "uci_post_uci"
    /\ \E h \in Draws("uci", cluster, rng) : uci' = PyInt(h, 2)
    /\ rng' = Advance(rng)
    /\ pc' = "uci_uci"
    /\ UNCHANGED <<experiment, rep, results, df, returned, clusters_used, cluster, post_uci,
                   vam, pre_vam, post_vam, attempts, clamped, now, callArgs, appVars, tabVars>>

\* simulacion.py lines 27-29
DrawPostUci ==
    /\ pc = "uci_post_uci"
    /\ \E h \in Draws("post_uci", cluster, rng) : post_uci' = PyInt(h, 2)
    /\ rng' = Advance(rng)
    /\ pc' = "uci_uci"
    /\ UNCHANGED <<experiment, rep, results, df, returned, clusters_used, cluster, uci, vam,
                   pre_vam, post_vam, attempts, clamped, now, callArgs, appVars, tabVars>>

\* simulacion.py lines 30-32
DrawUci ==
    /\ pc = "uci_uci"
    /\ \E h \in Draws("uci", cluster, rng) : uci' = PyInt(h, 2)
    /\ rng' = Advance(rng)
    /\ pc' = "uci_vam"
    /\ UNCHANGED <<experiment, rep, results, df, returned, clusters_used, cluster, post_uci,
                   vam, pre_vam, post_vam, attempts, clamped, now, callArgs, appVars, tabVars>>

\* simulacion.py lines 35-40: one iteration of the for loop
DrawVam ==
    /\ pc = "uci_vam"
    /\ attempts < MaxAttempts
    /\ \E h \in Draws("vam", cluster, rng) :
          /\ vam' = PyInt(h, 2)
          /\ pc' = IF VamAccepted(PyInt(h, 2), uci) THEN "uci_calc" ELSE "uci_vam"
    /\ attempts' = attempts + 1
    /\ rng' = Advance(rng)
    /\ UNCHANGED <<experiment, rep, results, df, returned, clusters_used, cluster, post_uci,
                   uci, pre_vam, post_vam, clamped, now, callArgs, appVars, tabVars>>

\* simulacion.py lines 41-42: the else branch of the for loop
ClampVam ==
    /\ pc = "uci_vam"
    /\ attempts = MaxAttempts
    /\ vam' = uci
    /\ clamped' = TRUE
    /\ pc' = "uci_calc"
    /\ UNCHANGED <<experiment, rng, rep, results, df, returned, clusters_used, cluster,
                   post_uci, uci, pre_vam, post_vam, attempts, now, callArgs, appVars,
                   tabVars>>

\* simulacion.py lines 44-51
Compute ==
    /\ pc = "uci_calc"
    /\ pre_vam' = PreVam(uci, vam, experiment.porciento)
    /\ post_vam' = PostVam(uci, pre_vam', vam)
    /\ experiment' = StoreResult(experiment, pre_vam', vam, post_vam', uci, post_uci)
    /\ pc' = "t_pre_vam"
    /\ UNCHANGED <<rng, rep, results, df, returned, clusters_used, cluster, post_uci, uci,
                   vam, attempts, clamped, now, callArgs, appVars, tabVars>>

\* variant: the stage ends without the clock moving
ElapseClockKept(delay, next) ==
    IF TimeoutOk(delay)
    THEN /\ pc' = next
         /\ UNCHANGED <<experiment, rng, rep, results, df, returned, clusters_used, locals,
                        callArgs, appVars, tabVars>>
    ELSE RunFails

\* yield env.timeout(delay): the clock advances by delay, or ValueError is raised
Elapse(delay, next) ==
    IF TimeoutOk(delay)
    THEN /\ now' = now + delay
         /\ pc' = next
         /\ UNCHANGED <<experiment, rng, rep, results, df, returned, clusters_used, cluster,
                        post_uci, uci, vam, pre_vam, post_vam, attempts, clamped, callArgs,
                        appVars, tabVars>>
    ELSE RunFails

\* simulacion.py line 53
TimeoutPreVam == pc = "t_pre_vam" /\ Elapse(pre_vam, "t_vam")

\* simulacion.py line 54
TimeoutVam == pc = "t_vam" /\ Elapse(vam, "t_post_vam")

\* variant: line 55 is missing
TimeoutPostVamDropped ==
    /\ pc = "t_post_vam"
    /\ pc' = "t_post_uci"
    /\ UNCHANGED <<experiment, rng, rep, results, df, returned, clusters_used, locals,
                   callArgs, appVars, tabVars>>

\* simulacion.py line 55
TimeoutPostVam == pc = "t_post_vam" /\ Elapse(post_vam, "t_post_uci")

\* simulacion.py line 56
TimeoutPostUci == pc = "t_post_uci" /\ Elapse(post_uci, "sr_return")

\* lines 113-120: the loop body converts what single_run returned into a row and
\* appends it, unless the conversion raises
RecordRow(raw) ==
    IF RowRaises(ToRow(raw, as_int))
    THEN /\ pc' = "raised"
         /\ UNCHANGED <<rep, results, locals>>
    ELSE /\ results' = Append(results, ToRow(raw, as_int))
         /\ rep' = rep + 1
         /\ LocalsCleared
         /\ pc' = "mr_loop"

\* variant: the new row is put in front of the list
AppendRowFront ==
    /\ pc = "sr_return"
    /\ returned' = Append(returned, experiment.result)
    /\ results' = <<ToRow(PyDict(experiment.result), as_int)>> \o results
    /\ rep' = rep + 1
    /\ LocalsCleared
    /\ pc' = "mr_loop"
    /\ UNCHANGED <<experiment, rng, df, clusters_used, callArgs, appVars, tabVars>>

\* experiment.py line 90 and lines 111-120: single_run returns experiment.result and
\* the loop body converts it into a row
AppendRow ==
    /\ pc = "sr_return"
    /\ returned' = Append(returned, experiment.result)
    /\ RecordRow(PyDict(experiment.result))
    /\ UNCHANGED <<experiment, rng, df, clusters_used, callArgs, appVars, tabVars>>

\* experiment.py lines 122-130
MakeFrame ==
    /\ pc = "mr_loop"
    /\ rep >= n_reps
    /\ df' = BuildFrame(results, as_int)
    /\ pc' = "done"
    /\ UNCHANGED <<experiment, rng, rep, results, returned, clusters_used, locals, callArgs,
                   appVars, tabVars>>

SimStep ==
    \/ SingleRunStart \/ Clustering \/ DrawPostUci \/ DrawUci \/ DrawVam \/ ClampVam
    \/ Compute \/ TimeoutPreVam \/ TimeoutVam \/ TimeoutPostVam \/ TimeoutPostUci
    \/ AppendRow \/ MakeFrame

-----------------------------------------------------------------------------
(* Initial states *)

NoCall == [valid |-> FALSE]

AppIdle == global_sim_seed = 0 /\ reseeded = FALSE /\ last_call = NoCall

EmptyFrame == [vals |-> <<>>, dtype |-> "int64"]
NoTest == [set |-> FALSE]
NothingShown == [kind |-> "nothing"]

WilcoxonIdle ==
    /\ df_experiment1 = EmptyFrame /\ df_experiment2 = EmptyFrame
    /\ wilcoxon_test = NoTest /\ shown = NothingShown

FriedmanIdle ==
    /\ experiment_dataframes = <<>>
    /\ friedman_test_result = NoTest
    /\ fshown = NothingShown

NoValidation == [stored |-> FALSE]
NoValidationShown == [cached |-> "none", run |-> "none"]

ValidationIdle ==
    /\ validation = NoValidation
    /\ vpc = "idle"
    /\ n_runs_input = 1
    /\ val_count = 0
    /\ vshown = NoValidationShown

NoData == <<>>
NoMetric == [evaluated |-> FALSE]
NothingRendered == [done |-> FALSE]

MetricsIdle ==
    /\ true_data = NoData
    /\ simulation_data = NoData
    /\ simulation_metric = NoMetric
    /\ rendered = NothingRendered

NoCache == [set |-> FALSE]

\* no call of get_drive_service yet, in a deployment with its secrets in place
DriveIdle ==
    /\ secrets = "service_account"
    /\ libs_installed = TRUE
    /\ auth = "ok"
    /\ drive_cache = NoCache
    /\ drive_calls = 0
    /\ drive_result = "no_call"

EmptyFolder == [count |-> 0, wanted_at |-> 0, trashed_match |-> FALSE]

\* no call of download_file_by_name yet, an empty folder, nothing at dest
DownloadIdle ==
    /\ folder = EmptyFolder
    /\ dest_file = "absent"
    /\ dpc = "idle"
    /\ files = EmptyFolder
    /\ chunks = 0
    /\ dl_result = "no_call"

NSessions == 2    \* browser sessions served by the one server process

Sessions == 1..NSessions

NoCentroidsCall == [ended |-> "no_call"]

\* no call of get_centroids_path yet and no centroid file in the temp directory
CentroidsIdle ==
    /\ folder_id = TRUE
    /\ cen_file = "absent"
    /\ cen_pc = [s \in Sessions |-> "idle"]
    /\ cen_seen = [s \in Sessions |-> "nothing"]
    /\ cen_downloaded = [s \in Sessions |-> FALSE]
    /\ cen_after = [s \in Sessions |-> FALSE]
    /\ cen_result = [s \in Sessions |-> NoCentroidsCall]
    /\ cen_succeeded = FALSE
    /\ cen_calls = 0

\* no call of load_model_from_drive yet
ModelIdle ==
    /\ mod_pc = "idle"
    /\ tmp_file = "none"
    /\ unlink_tried = FALSE
    /\ mod_pending = "nothing"
    /\ mod_result = "no_call"
    /\ mod_cache = FALSE
    /\ mod_calls = 0

NoResult == [rows |-> 0, press |-> 0]
NoPrediction == [set |-> FALSE, press |-> 0]
NoPass ==
    [pressed |-> FALSE, warned |-> {}, ran |-> FALSE, failed |-> "nothing",
     prediction_failed |-> FALSE]

\* the simulation tab before its first simulation (app.py 319-322)
SimTabIdle ==
    /\ df_result = NoResult
    /\ sim_sample_size = 1
    /\ prediction = NoPrediction
    /\ sim_pass = NoPass
    /\ sim_presses = 0

PyNoneRow == [none |-> TRUE]
EmptyDataFrame == [empty |-> TRUE]
NoRealPass == [selection |-> PyNoneRow, pressed |-> FALSE, ran |-> FALSE, ended |-> "no_pass"]

\* the real-data tab before its first pass (app.py 596-601)
RealDataIdle ==
    /\ df_sim_real_data = EmptyDataFrame
    /\ prev_selection = PyNoneRow
    /\ patient_data = PyNoneRow
    /\ rerun_enabled = FALSE
    /\ rd_pass = NoRealPass
    /\ rd_passes = 0

LoaderIdle == CentroidsIdle /\ ModelIdle /\ SimTabIdle /\ RealDataIdle

TabsIdle ==
    /\ WilcoxonIdle /\ FriedmanIdle /\ ValidationIdle /\ MetricsIdle /\ DriveIdle
    /\ DownloadIdle /\ LoaderIdle

LocalsZero ==
    /\ cluster = 0 /\ post_uci = 0 /\ uci = 0 /\ vam = 0 /\ pre_vam = 0
    /\ post_vam = 0 /\ attempts = 0 /\ clamped = FALSE /\ now = 0

\* multiple_replication(experiment, n_reps, as_int) has just been called on a fresh
\* Experiment.  The random source is either one nobody seeded, whose draws can be
\* anything (followed for a call of at most one replication), or a generator in
\* some state (followed for whole batches).
Init ==
    /\ experiment \in Experiments
    /\ constructed = experiment
    /\ centroids_ok \in BOOLEAN
    /\ as_int \in BOOLEAN
    /\ \/ rng = Unseeded /\ n_reps \in 0..1
       \/ rng \in [seeded : {TRUE}, x : 0..(GenM - 1)] /\ n_reps \in 0..MaxRuns
    /\ pc = "mr_loop"
    /\ rep = 0 /\ results = <<>> /\ df = NoTable
    /\ returned = <<>> /\ clusters_used = <<>>
    /\ LocalsZero
    /\ AppIdle
    /\ TabsIdle

Next == SimStep

Spec == Init /\ [][Next]_vars

-----------------------------------------------------------------------------
(* The row conversion of multiple_replication on its own: single_run is replaced by *)
(* the dict it returns, whose values may be values float() refuses.                 *)

RawValues == {PyValue(0), PyValue(MaxDur), PyText, PyNone, PyNaN}

\* the dicts a run returns: the keys of the result dict, two of the values free
RawRuns ==
    {[k \in Labels |-> IF k = "Tiempo Pre VAM" THEN a
                       ELSE IF k = "Estadia UCI" THEN b ELSE PyValue(1)] : a, b \in RawValues}

\* experiment.py lines 110-120 with the value of single_run(experiment) given
ConvertRun(raw) ==
    /\ pc = "mr_loop"
    /\ rep < n_reps
    /\ returned' = Append(returned, raw)
    /\ RecordRow(raw)
    /\ UNCHANGED <<experiment, rng, df, clusters_used, callArgs, appVars, tabVars>>

InitRows ==
    /\ experiment \in Experiments
    /\ constructed = experiment
    /\ centroids_ok = TRUE
    /\ as_int \in BOOLEAN
    /\ rng = Unseeded
    /\ n_reps \in 0..MaxRuns
    /\ pc = "mr_loop"
    /\ rep = 0 /\ results = <<>> /\ df = NoTable
    /\ returned = <<>> /\ clusters_used = <<>>
    /\ LocalsZero
    /\ AppIdle
    /\ TabsIdle

NextRows ==
    \/ \E raw \in RawRuns : ConvertRun(raw)
    \/ MakeFrame

SpecRows == InitRows /\ [][NextRows]_vars

-----------------------------------------------------------------------------
(* app.py: the global seed configuration and the simulation button *)

\* The patients entered in the form; each has a diagnosis and a respiratory
\* insufficiency code, as the form requires before it simulates.
AppExperiments ==
    {e \in Experiments :
        \/ e.porciento = 50
        \/ e.porciento = 200 /\ clustering(e.edad, e.diagn1, e.diagn2, e.diagn3, e.diagn4,
                                           e.apache, e.insuf_resp, e.va, e.estadia_uti,
                                           e.tiempo_vam, e.tiempo_pre_uti) = 0}

NoExperiment == NewExperiment(0, 0, 0, 0, 0, 0, 0, 0, 0, 0, 0, 0)

\* variant: the generator is reseeded only when the seed typed in has changed
SidebarSeedOnChange(seedIn, toggle) ==
    /\ global_sim_seed' = seedIn
    /\ rng' = IF toggle /\ seedIn # global_sim_seed THEN fix_seed(seedIn) ELSE rng

\* app.py lines 106-120: the number input is stored and, with the toggle on, fix_seed
\* is called, on every pass of the script
SidebarSeed(seedIn, toggle) ==
    /\ global_sim_seed' = seedIn
    /\ rng' = IF toggle THEN fix_seed(seedIn) ELSE rng

\* a pass of the script in which "Realizar Simulacion" was not pressed
PassWithoutSimulation(seedIn, toggle) ==
    /\ pc = "idle"
    /\ SidebarSeed(seedIn, toggle)
    /\ UNCHANGED <<experiment, pc, rep, results, df, returned, clusters_used, locals,
                   callArgs, reseeded, last_call, tabVars>>

\* a pass of the script in which the button was pressed: app.py lines 482-496 call
\* run_experiment, which builds the Experiment and calls multiple_replication
PassWithSimulation(seedIn, toggle, e, n) ==
    /\ pc = "idle"
    /\ SidebarSeed(seedIn, toggle)
    /\ reseeded' = toggle
    /\ experiment' = e /\ constructed' = e
    /\ n_reps' = n /\ as_int' = TRUE
    /\ rep' = 0 /\ results' = <<>> /\ df' = NoTable
    /\ returned' = <<>> /\ clusters_used' = <<>>
    /\ pc' = "mr_loop"
    /\ UNCHANGED <<centroids_ok, locals, last_call, tabVars>>

\* app.py lines 482-550: run_experiment has returned its table or raised; the pass ends
SimulationReturns ==
    /\ pc \in {"done", "raised"}
    /\ last_call' = IF reseeded
                     THEN [valid |-> TRUE, params |-> Params(constructed), n |-> n_reps,
                           seed |-> global_sim_seed, raised |-> (pc = "raised"),
                           table |-> df]
                     ELSE last_call
    /\ reseeded' = FALSE
    /\ rep' = 0 /\ results' = <<>> /\ df' = NoTable
    /\ returned' = <<>> /\ clusters_used' = <<>>
    /\ LocalsCleared
    /\ pc' = "idle"
    /\ UNCHANGED <<experiment, rng, callArgs, global_sim_seed, tabVars>>

\* The script has not run yet; the random source is a generator in some state.
InitApp ==
    /\ experiment = NoExperiment
    /\ constructed = NoExperiment
    /\ centroids_ok \in BOOLEAN
    /\ as_int = TRUE
    /\ rng \in [seeded : {TRUE}, x : 0..(GenM - 1)]
    /\ n_reps = 0
    /\ pc = "idle"
    /\ rep = 0 /\ results = <<>> /\ df = NoTable
    /\ returned = <<>> /\ clusters_used = <<>>
    /\ LocalsZero
    /\ AppIdle
    /\ TabsIdle

Pass ==
    \E seedIn \in 0..MaxSeed, toggle \in BOOLEAN :
        \/ PassWithoutSimulation(seedIn, toggle)
        \/ \E e \in AppExperiments, n \in 1..MaxRuns : PassWithSimulation(seedIn, toggle, e, n)

NextApp == Pass \/ SimStep \/ SimulationReturns

SpecApp == InitApp /\ [][NextApp]_vars

-----------------------------------------------------------------------------
(* simuci.stats.Wilcoxon: not among the sources; section 4.6 of the specification: *)
(* the test is rejected when every paired difference is zero, otherwise it yields  *)
(* the signed-rank statistic and its p-value.                                      *)

Abs(n) == IF n < 0 THEN -n ELSE n
MinOf(a, b) == IF a <= b THEN a ELSE b

Diff(x, y) == [i \in 1..Len(x) |-> x[i] - y[i]]

\* twice the rank of |d[i]| among the non-zero differences, ties sharing their mean rank
Rank2(d, i) ==
    2 * Cardinality({j \in DOMAIN d : d[j] # 0 /\ Abs(d[j]) < Abs(d[i])})
        + Cardinality({j \in DOMAIN d : d[j] # 0 /\ Abs(d[j]) = Abs(d[i])}) + 1

RECURSIVE RankSum2(_, _, _)
RankSum2(d, sign, i) ==
    IF i > Len(d) THEN 0
    ELSE (IF d[i] * sign > 0 THEN Rank2(d, i) ELSE 0) + RankSum2(d, sign, i + 1)

\* Wilcoxon(x, y).test(): the outcome of the test (statistic2 is twice the statistic;
\* the p-value is a function of the statistic and of n)
WilcoxonTest(x, y) ==
    LET d == Diff(x, y) IN
    IF \A i \in DOMAIN d : d[i] = 0
    THEN [ok |-> FALSE, error |-> "DegenerateInput"]
    ELSE [ok |-> TRUE,
          statistic2 |-> MinOf(RankSum2(d, 1, 1), RankSum2(d, -1, 1)),
          n |-> Cardinality({i \in DOMAIN d : d[i] # 0})]

-----------------------------------------------------------------------------
(* app.py: the Wilcoxon comparison tab *)

\* The columns a CSV can hold: up to MaxLen whole numbers, read as int64 or float64.
Values == 1..2
RECURSIVE SeqsUpTo(_)
SeqsUpTo(n) ==
    IF n = 0 THEN {<<>>}
    ELSE SeqsUpTo(n - 1) \cup {Append(q, v) : q \in {r \in SeqsUpTo(n - 1) : Len(r) = n - 1},
                                                 v \in Values}

Frames ==
    {EmptyFrame} \cup {[vals |-> q, dtype |-> t] : q \in SeqsUpTo(MaxLen) \ {<<>>},
                                                   t \in {"int64", "float64"}}

\* DataFrame.empty
IsEmpty(f) == Len(f.vals) = 0

\* Series.equals: same length, same dtype, same values
SeriesEquals(a, b) == a.dtype = b.dtype /\ a.vals = b.vals

\* variant: the last n rows are kept
TailRows(a, n) == [a EXCEPT !.vals = SubSeq(a.vals, Len(a.vals) - n + 1, Len(a.vals))]

\* Series.head(n)
HeadRows(a, n) == [a EXCEPT !.vals = SubSeq(a.vals, 1, n)]

\* app.py lines 920-937: the longer sample is cut to the length of the shorter one
Experiment1Cut(e1, e2) ==
    IF Len(e1.vals) > Len(e2.vals) THEN HeadRows(e1, Len(e2.vals)) ELSE e1

\* variant: the second sample is never cut
Experiment2CutNone(e1, e2) == e2

Experiment2Cut(e1, e2) ==
    IF Len(e1.vals) > Len(e2.vals) THEN e2
    ELSE IF Len(e1.vals) < Len(e2.vals) THEN HeadRows(e2, Len(e1.vals)) ELSE e2

\* the st.info message of lines 926-929 and 934-937, if any
CutInfo(e1, e2) ==
    IF Len(e1.vals) > Len(e2.vals)
    THEN [cut |-> "experimento 1", len_dif |-> Abs(Len(e1.vals) - Len(e2.vals))]
    ELSE IF Len(e1.vals) < Len(e2.vals)
    THEN [cut |-> "experimento 2", len_dif |-> Abs(Len(e1.vals) - Len(e2.vals))]
    ELSE [cut |-> "none", len_dif |-> 0]

\* a file is uploaded to, or removed from, one of the two uploaders (lines 857-890);
\* the script runs again and the container of the test shows nothing
Upload1(f) ==
    /\ df_experiment1' = f
    /\ shown' = NothingShown
    /\ UNCHANGED <<df_experiment2, wilcoxon_test, notWil>>

Upload2(f) ==
    /\ df_experiment2' = f
    /\ shown' = NothingShown
    /\ UNCHANGED <<df_experiment1, wilcoxon_test, notWil>>

\* app.py lines 907-958: "Realizar prueba de Wilcoxon" was pressed
PressWilcoxon ==
    /\ UNCHANGED <<df_experiment1, df_experiment2, notWil>>
    /\ IF IsEmpty(df_experiment1) \/ IsEmpty(df_experiment2)
       THEN shown' = [kind |-> "warning_empty"] /\ UNCHANGED wilcoxon_test
       ELSE IF SeriesEquals(df_experiment1, df_experiment2)
       THEN shown' = [kind |-> "error_zero_differences"] /\ UNCHANGED wilcoxon_test
       ELSE LET x == Experiment1Cut(df_experiment1, df_experiment2).vals
                y == Experiment2Cut(df_experiment1, df_experiment2).vals
                info == CutInfo(df_experiment1, df_experiment2)
                res == WilcoxonTest(x, y)
            IN  IF res.ok
                THEN /\ wilcoxon_test' = [set |-> TRUE, x |-> x, y |-> y,
                                          statistic2 |-> res.statistic2, n |-> res.n]
                     /\ shown' = [kind |-> "result", info |-> info, x |-> x, y |-> y,
                                  statistic2 |-> res.statistic2]
                ELSE /\ UNCHANGED wilcoxon_test
                     /\ shown' = [kind |-> "exception", info |-> info, x |-> x, y |-> y,
                                  error |-> res.error]

\* The comparison tab is followed on its own: it shares no state with the simulation.
InitWilcoxon ==
    /\ experiment = NoExperiment
    /\ constructed = NoExperiment
    /\ centroids_ok = TRUE
    /\ as_int = TRUE
    /\ rng = Unseeded
    /\ n_reps = 0
    /\ pc = "idle"
    /\ rep = 0 /\ results = <<>> /\ df = NoTable
    /\ returned = <<>> /\ clusters_used = <<>>
    /\ LocalsZero
    /\ AppIdle
    /\ TabsIdle

NextWilcoxon ==
    \/ \E f \in Frames : Upload1(f)
    \/ \E f \in Frames : Upload2(f)
    \/ PressWilcoxon

SpecWilcoxon == InitWilcoxon /\ [][NextWilcoxon]_vars

-----------------------------------------------------------------------------
(* utils.helpers.adjust_df_sizes and simuci.stats.Friedman: not among the sources; *)
(* section 4.6 of the specification: the samples are cut to the first rows up to    *)
(* the smallest row count, which is reported when a cut was made; the test is       *)
(* rejected with fewer than 3 non-empty samples.                                   *)

MaxFiles == 3     \* most files held by the Friedman uploader

RECURSIVE MinLen(_)
MinLen(samples) ==
    IF Len(samples) = 1 THEN Len(samples[1])
    ELSE MinOf(Len(samples[1]), MinLen(Tail(samples)))

\* adjust_df_sizes: the samples cut to the smallest row count, and that count, or -1
\* when no sample had to be cut
adjust_df_sizes(samples) ==
    LET m == MinLen(samples) IN
    IF \A i \in DOMAIN samples : Len(samples[i]) = m
    THEN [samples |-> samples, min_size |-> -1]
    ELSE [samples |-> [i \in DOMAIN samples |-> SubSeq(samples[i], 1, m)],
          min_size |-> m]

\* twice the rank of samples[j][i] among the values of row (block) i, ties sharing
\* their mean rank
BlockRank2(samples, i, j) ==
    2 * Cardinality({l \in DOMAIN samples : samples[l][i] < samples[j][i]})
        + Cardinality({l \in DOMAIN samples : samples[l][i] = samples[j][i]}) + 1

RECURSIVE RankSumOf2(_, _, _)
RankSumOf2(samples, j, i) ==
    IF i = 0 THEN 0 ELSE BlockRank2(samples, i, j) + RankSumOf2(samples, j, i - 1)

RECURSIVE SumSquares(_, _)
SumSquares(samples, j) ==
    IF j = 0 THEN 0
    ELSE LET r == RankSumOf2(samples, j, Len(samples[1])) IN r * r + SumSquares(samples, j - 1)

\* Friedman(samples).test(): the statistic is statistic_num / statistic_den, that is
\* 12 / (n k (k + 1)) * sum of the squared rank sums - 3 n (k + 1); the p-value is a
\* function of the statistic and of k
FriedmanTest(samples) ==
    IF Len(samples) < 3 \/ \E j \in DOMAIN samples : Len(samples[j]) = 0
    THEN [ok |-> FALSE, error |-> "InvalidInput"]
    ELSE LET k == Len(samples)
             n == Len(samples[1])
         IN  [ok |-> TRUE, k |-> k, n |-> n,
              statistic_num |-> 3 * SumSquares(samples, k) - 3 * n * n * k * (k + 1) * (k + 1),
              statistic_den |-> n * k * (k + 1)]

-----------------------------------------------------------------------------
(* app.py: the Friedman comparison tab *)

\* what bin_to_df makes of one uploaded file: a table without the selected column, or
\* a table with that column and up to MaxLen rows, whose values rise or fall from row
\* to row
NoColumn == [has_column |-> FALSE, vals |-> <<>>]
FriedmanColumns(l) == {[i \in 1..l |-> i], [i \in 1..l |-> l + 1 - i]}
FriedmanFrames ==
    {NoColumn} \cup {[has_column |-> TRUE, vals |-> q] :
                        q \in UNION {FriedmanColumns(l) : l \in 0..MaxLen}}

\* one more file is added to the uploader (lines 967-972); the script runs again
FriedmanUpload(f) ==
    /\ Len(experiment_dataframes) < MaxFiles
    /\ experiment_dataframes' = Append(experiment_dataframes, f)
    /\ fshown' = NothingShown
    /\ UNCHANGED <<friedman_test_result, notFri>>

\* a file is removed from the uploader
FriedmanRemove(i) ==
    /\ i \in DOMAIN experiment_dataframes
    /\ experiment_dataframes' =
          SubSeq(experiment_dataframes, 1, i - 1)
              \o SubSeq(experiment_dataframes, i + 1, Len(experiment_dataframes))
    /\ fshown' = NothingShown
    /\ UNCHANGED <<friedman_test_result, notFri>>

\* variant of the check of line 1004: two files are enough
EnoughFilesTwo(n) == n >= 2

\* line 1004: `len(experiments_file_upl) >= 3`
EnoughFiles(n) == n >= 3

\* variant: the common row count is never reported
FriedmanInfoSilent(min_sample_size) == [reported |-> FALSE, rows |-> -1]

\* the st.info message of lines 1033-1036, if any
FriedmanInfo(min_sample_size) ==
    IF min_sample_size # -1
    THEN [reported |-> TRUE, rows |-> min_sample_size]
    ELSE [reported |-> FALSE, rows |-> -1]

\* app.py lines 999-1059: "Realizar prueba de Friedman" was pressed
PressFriedman ==
    /\ UNCHANGED <<experiment_dataframes, notFri>>
    /\ IF Len(experiment_dataframes) = 0
       THEN fshown' = [kind |-> "warning_no_data"] /\ UNCHANGED friedman_test_result
       ELSE IF ~EnoughFiles(Len(experiment_dataframes))
       THEN fshown' = [kind |-> "warning_few_samples"] /\ UNCHANGED friedman_test_result
       ELSE IF \E i \in DOMAIN experiment_dataframes : ~experiment_dataframes[i].has_column
       THEN \* df[[col_comparison_selectbox]] raises KeyError outside the try block
            fshown' = [kind |-> "uncaught", error |-> "KeyError"]
               /\ UNCHANGED friedman_test_result
       ELSE LET adjusted_sample_tuple ==
                    adjust_df_sizes([i \in DOMAIN experiment_dataframes |->
                                        experiment_dataframes[i].vals])
                samples_selection == adjusted_sample_tuple.samples
                min_sample_size == adjusted_sample_tuple.min_size
            IN  IF Len(samples_selection) < 3
                THEN fshown' = [kind |-> "error_few_valid"] /\ UNCHANGED friedman_test_result
                ELSE LET info == FriedmanInfo(min_sample_size)
                         res == FriedmanTest(samples_selection)
                     IN  IF res.ok
                         THEN /\ friedman_test_result' =
                                    [set |-> TRUE, k |-> res.k, n |-> res.n,
                                     statistic_num |-> res.statistic_num,
                                     statistic_den |-> res.statistic_den]
                              /\ fshown' = [kind |-> "result", info |-> info,
                                            samples |-> samples_selection,
                                            statistic_num |-> res.statistic_num,
                                            statistic_den |-> res.statistic_den]
                         ELSE /\ UNCHANGED friedman_test_result
                              /\ fshown' = [kind |-> "exception", info |-> info,
                                            samples |-> samples_selection,
                                            error |-> res.error]

\* no simulation is running and none has run
SimIdle ==
    /\ experiment = NoExperiment
    /\ constructed = NoExperiment
    /\ centroids_ok = TRUE
    /\ as_int = TRUE
    /\ rng = Unseeded
    /\ n_reps = 0
    /\ pc = "idle"
    /\ rep = 0 /\ results = <<>> /\ df = NoTable
    /\ returned = <<>> /\ clusters_used = <<>>
    /\ LocalsZero

InitFriedman == SimIdle /\ AppIdle /\ TabsIdle

NextFriedman ==
    \/ \E f \in FriedmanFrames : FriedmanUpload(f)
    \/ \E i \in 1..MaxFiles : FriedmanRemove(i)
    \/ PressFriedman

SpecFriedman == InitFriedman /\ [][NextFriedman]_vars

-----------------------------------------------------------------------------
(* app.py: the model validation tab *)

MaxValidations == 2   \* most validation runs followed

\* lines 778-816: what one validation run computes, each part marked with the run it
\* comes from and the inputs it was computed from
TrueData(run, seed) == [run |-> run, seed |-> seed]
SimulationData(run, n_runs, seed) == [run |-> run, n_runs |-> n_runs, seed |-> seed]
SimulationMetric(df_true, sim_arr) ==
    [true_run |-> df_true.run, sim_run |-> sim_arr.run]
Figures(sim_metrics, df_true, sim_arr) ==
    [metric_run |-> sim_metrics.sim_run, true_run |-> df_true.run,
     sim_run |-> sim_arr.run]

\* lines 818-827: the dict stored in st.session_state.validation
ValidationRecord(run, n_runs, seed) ==
    LET df_true == TrueData(run, seed)
        sim_arr == SimulationData(run, n_runs, seed)
        sim_metrics == SimulationMetric(df_true, sim_arr)
        figs == Figures(sim_metrics, df_true, sim_arr)
    IN  [stored |-> TRUE, timestamp |-> run, n_runs |-> n_runs, seed |-> seed,
         true_data |-> df_true, simulation_data |-> sim_arr,
         simulation_metric |-> sim_metrics, figs |-> figs, figs_bytes |-> figs]

\* the step of the handler that raises, if any
ValidationOutcomes == {"load", "simulate", "evaluate", "plot", "render", "ok"}
FailsBeforeStore == {"load", "simulate", "evaluate", "plot"}

\* variant: the caption shows the seed of the sidebar
CaptionCurrentSeed(val, current_seed) == [n_runs |-> val.n_runs, seed |-> current_seed]

\* lines 743-753: the caption of a stored validation; the stored seed is never None
Caption(val, current_seed) == [n_runs |-> val.n_runs, seed |-> val.seed]

\* lines 716-774 of one script pass: the sidebar, the number input, and the stored
\* validation, which is rendered, or cleared by its button or by a failing render
ShowStored(seedIn, toggle, n, button, renderOk) ==
    /\ vpc = "idle"
    /\ pc = "idle"
    /\ SidebarSeed(seedIn, toggle)
    /\ n_runs_input' = n
    /\ button = "clear" => validation.stored
    /\ button = "run" => val_count < MaxValidations
    /\ IF ~validation.stored
       THEN /\ UNCHANGED validation
            /\ vshown' = NoValidationShown
            /\ vpc' = IF button = "run" THEN "handler" ELSE "idle"
       ELSE IF button = "clear"
       THEN /\ validation' = NoValidation
            /\ vshown' = [cached |-> "cleared", run |-> "none",
                           caption |-> Caption(validation, seedIn)]
            /\ vpc' = "idle"
       ELSE IF renderOk
       THEN /\ UNCHANGED validation
            /\ vshown' = [cached |-> "rendered", run |-> "none",
                           caption |-> Caption(validation, seedIn)]
            /\ vpc' = IF button = "run" THEN "handler" ELSE "idle"
       ELSE /\ validation' = NoValidation
            /\ vshown' = [cached |-> "failed", run |-> "none",
                           caption |-> Caption(validation, seedIn)]
            /\ vpc' = IF button = "run" THEN "handler" ELSE "idle"
    /\ UNCHANGED <<experiment, constructed, centroids_ok, pc, n_reps, as_int, rep, results,
                   df, returned, clusters_used, locals, reseeded, last_call, val_count,
                   notVal>>

\* variant: the data of the run is stored before the plots are made
RunValidationStoreEarly(outcome) ==
    /\ vpc = "handler"
    /\ val_count' = val_count + 1
    /\ vpc' = "idle"
    /\ IF outcome \in {"load", "simulate", "evaluate"}
       THEN /\ UNCHANGED validation
            /\ vshown' = [vshown EXCEPT !.run = "error"]
       ELSE IF outcome = "plot"
       THEN /\ validation' =
                  IF validation.stored
                  THEN [validation EXCEPT
                          !.true_data = TrueData(val_count', global_sim_seed),
                          !.simulation_data =
                              SimulationData(val_count', n_runs_input, global_sim_seed)]
                  ELSE validation
            /\ vshown' = [vshown EXCEPT !.run = "error"]
       ELSE /\ validation' = ValidationRecord(val_count', n_runs_input, global_sim_seed)
            /\ vshown' = [vshown EXCEPT !.run = IF outcome = "ok" THEN "rendered" ELSE "error"]
    /\ UNCHANGED <<simVars, appVars, n_runs_input, notVal>>

\* lines 776-838: "Comprobar modelo de simulacion" was pressed; the try block loads the
\* true data, simulates, evaluates, plots, stores the record and renders it, and any
\* exception ends it with st.error
RunValidation(outcome) ==
    /\ vpc = "handler"
    /\ val_count' = val_count + 1
    /\ vpc' = "idle"
    /\ IF outcome \in FailsBeforeStore
       THEN /\ UNCHANGED validation
            /\ vshown' = [vshown EXCEPT !.run = "error"]
       ELSE /\ validation' = ValidationRecord(val_count', n_runs_input, global_sim_seed)
            /\ vshown' = [vshown EXCEPT !.run = IF outcome = "ok" THEN "rendered" ELSE "error"]
    /\ UNCHANGED <<simVars, appVars, n_runs_input, notVal>>

InitValidation == SimIdle /\ AppIdle /\ TabsIdle

NextValidation ==
    \/ \E seedIn \in 0..MaxSeed, toggle \in BOOLEAN, n \in 1..MaxRuns,
          button \in {"none", "run", "clear"}, renderOk \in BOOLEAN :
          ShowStored(seedIn, toggle, n, button, renderOk)
    \/ \E outcome \in ValidationOutcomes : RunValidation(outcome)

SpecValidation == InitValidation /\ [][NextValidation]_vars

-----------------------------------------------------------------------------
(* simuci.stats.SimulationMetrics: not among the sources; section 4.5 of the       *)
(* specification. Exact fractions [num, den] stand for the floating-point values.  *)

MaxCells == 2     \* most (patient, variable) pairs of a true-data table

RECURSIVE SumSeq(_)
SumSeq(q) == IF Len(q) = 0 THEN 0 ELSE Head(q) + SumSeq(Tail(q))

RECURSIVE ProdSeq(_)
ProdSeq(q) == IF Len(q) = 0 THEN 1 ELSE Head(q) * ProdSeq(Tail(q))

NPatients(td) == Len(td)
NVariables(td) == Len(td[1])
NRuns(sd) == Len(sd[1])

\* the (patient, variable) pairs, row by row
Pairs(td) ==
    [k \in 1..(NPatients(td) * NVariables(td)) |->
        <<((k - 1) \div NVariables(td)) + 1, ((k - 1) % NVariables(td)) + 1>>]

\* the sum over the runs of patient i, variable v: runs times the per-patient mean
RunSum(sd, i, v) == SumSeq([j \in 1..NRuns(sd) |-> sd[i][j][v]])

\* runs * (mean - true)
Dev(td, sd, i, v) == RunSum(sd, i, v) - NRuns(sd) * td[i][v]

\* RMSE squared = average over all pairs of (mean - true)^2
Rmse2(td, sd) ==
    [nan |-> FALSE,
     num |-> SumSeq([k \in DOMAIN Pairs(td) |->
                        Dev(td, sd, Pairs(td)[k][1], Pairs(td)[k][2])
                            * Dev(td, sd, Pairs(td)[k][1], Pairs(td)[k][2])]),
     den |-> NRuns(sd) * NRuns(sd) * Len(Pairs(td))]

\* MAE = average over all pairs of |mean - true|
Mae(td, sd) ==
    [nan |-> FALSE,
     num |-> SumSeq([k \in DOMAIN Pairs(td) |->
                        Abs(Dev(td, sd, Pairs(td)[k][1], Pairs(td)[k][2]))]),
     den |-> NRuns(sd) * Len(Pairs(td))]

\* the pairs whose true value is not 0
NonZeroPairs(td) == SelectSeq(Pairs(td), LAMBDA p : td[p[1]][p[2]] # 0)

\* MAPE = average over the pairs with a non-zero true value of 100 |mean - true| / true;
\* not a number when there is no such pair
Mape(td, sd) ==
    LET nz == NonZeroPairs(td)
        l == ProdSeq([k \in DOMAIN nz |-> td[nz[k][1]][nz[k][2]]])
    IN  IF Len(nz) = 0 THEN [nan |-> TRUE, num |-> 0, den |-> 1]
        ELSE [nan |-> FALSE,
              num |-> SumSeq([k \in DOMAIN nz |->
                                 100 * Abs(Dev(td, sd, nz[k][1], nz[k][2]))
                                     * (l \div td[nz[k][1]][nz[k][2]])]),
              den |-> NRuns(sd) * Len(nz) * l]

\* 1000 times the square of the two-sided 95% Student-t quantile
TQuantileSq1000(dof) ==
    CASE dof = 1 -> 161447 [] dof = 2 -> 18513 [] dof = 3 -> 10128 [] OTHER -> 7707

\* runs^2 * (runs - 1) times the sample variance of the runs (Bessel's correction)
Spread2(sd, i, v) ==
    SumSeq([j \in 1..NRuns(sd) |->
               (NRuns(sd) * sd[i][j][v] - RunSum(sd, i, v))
                   * (NRuns(sd) * sd[i][j][v] - RunSum(sd, i, v))])

\* the true value lies in mean +- t * s / sqrt(runs); with one run, in the point
InsideInterval(td, sd, i, v) ==
    LET m == NRuns(sd)
        d == Dev(td, sd, i, v)
    IN  IF m = 1 THEN d = 0
        ELSE d * d * m * (m - 1) * 1000 <= TQuantileSq1000(m - 1) * Spread2(sd, i, v)

\* Coverage% of variable v
CoveragePercentage(td, sd, v) ==
    [nan |-> FALSE,
     num |-> 100 * Cardinality({i \in 1..NPatients(td) : InsideInterval(td, sd, i, v)}),
     den |-> NPatients(td)]

\* SimulationMetrics(true_data, simulation_data).evaluate(...)
Evaluate(td, sd) ==
    [evaluated |-> TRUE,
     error_margin |-> [rmse2 |-> Rmse2(td, sd), mae |-> Mae(td, sd), mape |-> Mape(td, sd)],
     coverage_percentage |-> [v \in 1..NVariables(td) |-> CoveragePercentage(td, sd, v)]]

-----------------------------------------------------------------------------
(* utils/validation_ui/validation_ui.py: the error summary and the coverage *)

PyNoneMetric == [none |-> TRUE]
Some(x) == [none |-> FALSE, nan |-> x.nan, num |-> x.num, den |-> x.den]

\* _extract_error_metrics
ExtractErrorMetrics(metric) ==
    IF metric.evaluated
    THEN [rmse2 |-> Some(metric.error_margin.rmse2), mae |-> Some(metric.error_margin.mae),
          mape |-> Some(metric.error_margin.mape)]
    ELSE [rmse2 |-> PyNoneMetric, mae |-> PyNoneMetric, mape |-> PyNoneMetric]

\* the number in the format "{:.Nf}" of scale * num / den (scale is 10^N): rounded to
\* the nearest, a tie to the even neighbour
Rounded(x, scale) ==
    LET q == (scale * x.num) \div x.den
        r == (scale * x.num) % x.den
    IN  IF 2 * r < x.den THEN q
        ELSE IF 2 * r > x.den THEN q + 1
        ELSE IF q % 2 = 0 THEN q ELSE q + 1

\* the square root of x2 rounded to a whole number
RoundedRoot(x2) ==
    CHOOSE r \in 0..(x2.num + 1) :
        /\ (r = 0 \/ (2 * r - 1) * (2 * r - 1) * x2.den <= 4 * x2.num)
        /\ 4 * x2.num < (2 * r + 1) * (2 * r + 1) * x2.den

NotAvailable == [text |-> "N/A"]
Number(n, unit) == [text |-> "number", value |-> n, unit |-> unit]
NaNText(unit) == [text |-> "nan", unit |-> unit]

\* lines 236 and 241: f"{x:.0f}" if x is not None else "N/A"
RmseDisplay(rmse2) ==
    IF rmse2.none THEN NotAvailable
    ELSE IF rmse2.nan THEN NaNText("") ELSE Number(RoundedRoot(rmse2), "")

MaeDisplay(mae) ==
    IF mae.none THEN NotAvailable
    ELSE IF mae.nan THEN NaNText("") ELSE Number(Rounded(mae, 1), "")

\* variant: the test for not-a-number is missing
MapeDisplayNoNanTest(mape) ==
    IF mape.none THEN NotAvailable
    ELSE IF mape.nan THEN NaNText("%") ELSE Number(Rounded(mape, 10), "%")

\* lines 247-249
MapeDisplay(mape) ==
    IF ~mape.none /\ ~mape.nan THEN Number(Rounded(mape, 10), "%") ELSE NotAvailable

\* _safe_float
SafeFloat(value, default) == IF value.nan THEN default ELSE value

\* variant: the percentage is taken for a fraction of 1
ProgressOfFraction(pct) == MinOf(IF PyInt(100 * pct.num, pct.den) > 0
                                 THEN PyInt(100 * pct.num, pct.den) ELSE 0, 100)

\* line 280: min(max(int(pct), 0), 100)
ProgressOf(pct) == MinOf(IF PyInt(pct.num, pct.den) > 0
                         THEN PyInt(pct.num, pct.den) ELSE 0, 100)

\* lines 276-280: one line and one progress bar per variable
CoverageLines(metric) ==
    IF metric.evaluated
    THEN [v \in DOMAIN metric.coverage_percentage |->
             LET pct == SafeFloat(metric.coverage_percentage[v], [nan |-> FALSE, num |-> 0, den |-> 1])
             IN  [text |-> Number(Rounded(pct, 10), "%"), progress |-> ProgressOf(pct)]]
    ELSE <<>>

\* render_validation: _render_error_summary and _render_coverage
Render(metric) ==
    LET e == ExtractErrorMetrics(metric) IN
    [done |-> TRUE, of_evaluated |-> metric.evaluated,
     rmse |-> RmseDisplay(e.rmse2), mae |-> MaeDisplay(e.mae), mape |-> MapeDisplay(e.mape),
     coverage |-> CoverageLines(metric)]

\* the tables the metrics are evaluated on: up to MaxCells (patient, variable) pairs,
\* up to MaxRuns runs, values up to MaxDur; the runs of a pair are all equal or
\* alternate between two neighbouring values
Shapes == {s \in (1..MaxCells) \X (1..MaxCells) : s[1] * s[2] <= MaxCells}
RunShapes == [base : 0..MaxDur, spread : BOOLEAN]
RunValue(shape, j) == shape.base + (IF shape.spread /\ j % 2 = 0 THEN 1 ELSE 0)
TrueTables(p, v) == [1..p -> [1..v -> 0..MaxDur]]
SimulationArrays(p, v, m) ==
    {[i \in 1..p |-> [j \in 1..m |-> [w \in 1..v |-> RunValue(f[i][w], j)]]] :
        f \in [1..p -> [1..v -> RunShapes]]}

\* sim_metrics.evaluate(...) (app.py lines 803-807)
EvaluateMetrics ==
    /\ ~simulation_metric.evaluated
    /\ simulation_metric' = Evaluate(true_data, simulation_data)
    /\ UNCHANGED <<true_data, simulation_data, rendered, notMet>>

\* render_validation(simulation_metric = ...)
RenderValidation ==
    /\ rendered' = Render(simulation_metric)
    /\ UNCHANGED <<true_data, simulation_data, simulation_metric, notMet>>

InitMetrics ==
    /\ SimIdle /\ AppIdle /\ WilcoxonIdle /\ FriedmanIdle /\ ValidationIdle /\ DriveIdle
    /\ DownloadIdle /\ LoaderIdle
    /\ \E s \in Shapes, m \in 1..MaxRuns :
          /\ true_data \in TrueTables(s[1], s[2])
          /\ simulation_data \in SimulationArrays(s[1], s[2], m)
    /\ simulation_metric = NoMetric
    /\ rendered = NothingRendered

NextMetrics == EvaluateMetrics \/ RenderValidation

SpecMetrics == InitMetrics /\ [][NextMetrics]_vars

-----------------------------------------------------------------------------
(* utils/services/google_drive.py: get_drive_service *)

MaxCalls == 3     \* most calls of get_drive_service followed

\* what st.secrets holds: no secrets file at all, no [google_drive] section, a
\* google_drive entry that is not a table, a section without service_account, an empty
\* service_account table, a filled one
SecretsStates ==
    {"no_file", "no_section", "not_a_table", "no_service_account", "empty_service_account",
     "service_account"}

\* Credentials.from_service_account_info and build: both return, or one raises
AuthOutcomes == {"ok", "credentials_raise", "build_raises"}

Returns(value) == [raised |-> "none", value |-> value]
Raises(exc) == [raised |-> exc, value |-> "None"]

\* GoogleDriveService.__init__ (lines 41-56)
NewGoogleDriveService(libs, authOutcome) ==
    IF ~libs THEN Raises("ImportError")
    ELSE IF authOutcome = "credentials_raise" THEN Raises("ValueError")
    ELSE IF authOutcome = "build_raises" THEN Raises("HttpError")
    ELSE Returns("GoogleDriveService")

\* lines 147-152: the body of the try block
TryBody(sec, libs, authOutcome) ==
    CASE sec = "no_file" -> Raises("StreamlitSecretNotFoundError")
      [] sec = "not_a_table" -> Raises("AttributeError")
      [] sec \in {"no_section", "no_service_account", "empty_service_account"} -> Returns("None")
      [] sec = "service_account" -> NewGoogleDriveService(libs, authOutcome)

\* variant: only ImportError is handled
HandledImportErrorOnly(exc) == exc = "ImportError"

\* lines 153-161: except ImportError, except Exception
Handled(exc) ==
    exc \in {"ImportError", "ValueError", "HttpError", "AttributeError",
             "StreamlitSecretNotFoundError"}

\* lines 138-161: the function under st.cache_resource
DriveServiceBody(sec, libs, authOutcome) ==
    LET r == TryBody(sec, libs, authOutcome) IN
    IF r.raised = "none" THEN r
    ELSE IF Handled(r.raised) THEN Returns("None") ELSE r

\* one call of get_drive_service: st.cache_resource (line 137) runs the body on the
\* first call and hands out the value it keeps on every later call
GetDriveService ==
    /\ drive_calls < MaxCalls
    /\ drive_calls' = drive_calls + 1
    /\ IF drive_cache.set
       THEN /\ drive_result' = drive_cache.value
            /\ UNCHANGED drive_cache
       ELSE LET r == DriveServiceBody(secrets, libs_installed, auth) IN
            IF r.raised = "none"
            THEN /\ drive_result' = r.value
                 /\ drive_cache' = [set |-> TRUE, value |-> r.value]
            ELSE /\ drive_result' = "raised"
                 /\ UNCHANGED drive_cache
    /\ UNCHANGED <<secrets, libs_installed, auth, notDrv>>

InitDriveService ==
    /\ SimIdle /\ AppIdle /\ WilcoxonIdle /\ FriedmanIdle /\ ValidationIdle /\ MetricsIdle
    /\ DownloadIdle /\ LoaderIdle
    /\ secrets \in SecretsStates
    /\ libs_installed \in BOOLEAN
    /\ auth \in AuthOutcomes
    /\ drive_cache = NoCache
    /\ drive_calls = 0
    /\ drive_result = "no_call"

NextDriveService == GetDriveService

SpecDriveService == InitDriveService /\ [][NextDriveService]_vars

-----------------------------------------------------------------------------
(* utils/services/google_drive.py: list_files, download_file, download_file_by_name *)

PageSize == 100   \* pageSize of the one files().list request
MaxBeyond == 1    \* most folder entries beyond one page
MaxChunks == 2    \* most chunks of one download

\* a folder is its number of non-trashed entries, the place in listing order of the
\* entry named filename (0: there is none), and whether a trashed entry has that name
Folders ==
    {[count |-> n, wanted_at |-> w, trashed_match |-> t] :
        n \in 0..(PageSize + MaxBeyond), w \in 0..(PageSize + MaxBeyond), t \in BOOLEAN}

\* lines 71-77: the first page of the entries that are in the folder and not trashed;
\* nextPageToken is not asked for and not followed
FirstPage(f) ==
    LET n == IF f.count <= PageSize THEN f.count ELSE PageSize IN
    [count |-> n, wanted_at |-> IF f.wanted_at <= n THEN f.wanted_at ELSE 0,
     trashed_match |-> FALSE]

\* lines 123 and 62-77: list_files returns a page or its request raises
ListFiles(outcome) ==
    /\ dpc = "idle"
    /\ IF outcome = "raise"
       THEN /\ dpc' = "raised"
            /\ dl_result' = "raised"
            /\ UNCHANGED files
       ELSE /\ dpc' = "listed"
            /\ files' = FirstPage(folder)
            /\ UNCHANGED dl_result
    /\ UNCHANGED <<folder, dest_file, chunks, notDl>>

\* lines 124-129: the first entry of the page with that name is downloaded; None when
\* the page has none
FindByName ==
    /\ dpc = "listed"
    /\ IF files.wanted_at > 0
       THEN /\ dpc' = "download_file"
            /\ UNCHANGED dl_result
       ELSE /\ dpc' = "returned"
            /\ dl_result' = "None"
    /\ UNCHANGED <<folder, dest_file, files, chunks, notDl>>

\* lines 92-99: the request is built, the parent directory made and dest opened for
\* writing, which creates or empties it
OpenDest(outcome) ==
    /\ dpc = "download_file"
    /\ IF outcome = "raise"
       THEN /\ dpc' = "raised"
            /\ dl_result' = "raised"
            /\ UNCHANGED dest_file
       ELSE /\ dpc' = "next_chunk"
            /\ dest_file' = "partial"
            /\ UNCHANGED dl_result
    /\ UNCHANGED <<folder, files, chunks, notDl>>

\* lines 100-104 and 126: one next_chunk; after the last one dest is returned
NextChunk(outcome) ==
    /\ dpc = "next_chunk"
    /\ CASE outcome = "more" ->
              /\ chunks < MaxChunks
              /\ chunks' = chunks + 1
              /\ UNCHANGED <<dpc, dest_file, dl_result>>
         [] outcome = "done" ->
              /\ chunks' = chunks + 1
              /\ dest_file' = "complete"
              /\ dpc' = "returned"
              /\ dl_result' = "dest"
         [] outcome = "raise" ->
              /\ dpc' = "raised"
              /\ dl_result' = "raised"
              /\ UNCHANGED <<dest_file, chunks>>
    /\ UNCHANGED <<folder, files, notDl>>

\* get_drive_service has returned a service (the state GetDriveService leaves)
HasService ==
    /\ secrets = "service_account" /\ libs_installed = TRUE /\ auth = "ok"
    /\ drive_cache = [set |-> TRUE, value |-> "GoogleDriveService"]
    /\ drive_calls = 1
    /\ drive_result = "GoogleDriveService"

InitDownload ==
    /\ SimIdle /\ AppIdle /\ WilcoxonIdle /\ FriedmanIdle /\ ValidationIdle /\ MetricsIdle
    /\ HasService
    /\ LoaderIdle
    /\ folder \in {f \in Folders : f.wanted_at <= f.count}
    /\ dest_file \in {"absent", "old"}
    /\ dpc = "idle"
    /\ files = EmptyFolder
    /\ chunks = 0
    /\ dl_result = "no_call"

NextDownload ==
    \/ \E outcome \in {"ok", "raise"} : ListFiles(outcome)
    \/ FindByName
    \/ \E outcome \in {"ok", "raise"} : OpenDest(outcome)
    \/ \E outcome \in {"more", "done", "raise"} : NextChunk(outcome)

SpecDownload == InitDownload /\ [][NextDownload]_vars

-----------------------------------------------------------------------------
(* utils/data_loader.py: get_centroids_path *)

\* get_drive_service has returned None (the state GetDriveService leaves without secrets)
HasNoService ==
    /\ secrets = "no_section" /\ libs_installed = TRUE /\ auth = "ok"
    /\ drive_cache = [set |-> TRUE, value |-> "None"]
    /\ drive_calls = 1
    /\ drive_result = "None"

\* the folders told apart here: without the centroid file, with it on the first page of
\* the listing, with it beyond the first page
CentroidFolders ==
    {f \in Folders : /\ ~f.trashed_match
                     /\ \/ f.count = 0 /\ f.wanted_at = 0
                        \/ f.count = 1 /\ f.wanted_at = 1
                        \/ f.count = PageSize + 1 /\ f.wanted_at = PageSize + 1}

CallEnds(how, file) == [ended |-> how, file |-> file]

\* variant: every call downloads
NeedsDownloadAlways(file) == TRUE

\* line 96: if not dest_path.exists()
NeedsDownload(file) == file = "absent"

\* lines 83-93: the service is asked for, folder_id read, the temp path put together
CentroidsStart(s) ==
    /\ cen_pc[s] = "idle"
    /\ cen_calls < MaxCalls
    /\ cen_calls' = cen_calls + 1
    /\ cen_seen' = [cen_seen EXCEPT ![s] = "nothing"]
    /\ cen_downloaded' = [cen_downloaded EXCEPT ![s] = FALSE]
    /\ cen_after' = [cen_after EXCEPT ![s] = cen_succeeded]
    /\ IF drive_result # "GoogleDriveService"
       THEN /\ cen_result' = [cen_result EXCEPT ![s] = CallEnds("stopped", cen_file)]
            /\ UNCHANGED cen_pc
       ELSE IF ~folder_id
       THEN /\ cen_result' = [cen_result EXCEPT ![s] = CallEnds("raised", cen_file)]
            /\ UNCHANGED cen_pc
       ELSE /\ cen_result' = [cen_result EXCEPT ![s] = CallEnds("running", cen_file)]
            /\ cen_pc' = [cen_pc EXCEPT ![s] = "exists"]
    /\ UNCHANGED <<folder_id, cen_file, cen_succeeded, modVars, stVars, rdVars, dlVars, notLdr>>

\* lines 96 and 102: the file is looked for; when it is there its path is returned
CentroidsExists(s) ==
    /\ cen_pc[s] = "exists"
    /\ cen_seen' = [cen_seen EXCEPT ![s] = cen_file]
    /\ IF NeedsDownload(cen_file)
       THEN /\ cen_pc' = [cen_pc EXCEPT ![s] = "list_files"]
            /\ UNCHANGED <<cen_result, cen_succeeded>>
       ELSE /\ cen_pc' = [cen_pc EXCEPT ![s] = "idle"]
            /\ cen_result' = [cen_result EXCEPT ![s] = CallEnds("path", cen_file)]
            /\ cen_succeeded' = TRUE
    /\ UNCHANGED <<folder_id, cen_file, cen_downloaded, cen_after, cen_calls, modVars, stVars, rdVars, dlVars, notLdr>>

\* lines 97-100 with google_drive.py 123-129: the folder is listed and the name looked
\* for; without a match download_file_by_name returns None and the script is stopped
CentroidsList(s, outcome) ==
    /\ cen_pc[s] = "list_files"
    /\ IF outcome = "raise"
       THEN /\ cen_pc' = [cen_pc EXCEPT ![s] = "idle"]
            /\ cen_result' = [cen_result EXCEPT ![s] = CallEnds("raised", cen_file)]
       ELSE IF FirstPage(folder).wanted_at > 0
       THEN /\ cen_pc' = [cen_pc EXCEPT ![s] = "download_file"]
            /\ UNCHANGED cen_result
       ELSE /\ cen_pc' = [cen_pc EXCEPT ![s] = "idle"]
            /\ cen_result' = [cen_result EXCEPT ![s] = CallEnds("stopped", cen_file)]
    /\ UNCHANGED <<folder_id, cen_file, cen_seen, cen_downloaded, cen_after, cen_succeeded,
                   cen_calls, modVars, stVars, rdVars, dlVars, notLdr>>

\* google_drive.py 92-99: dest_path is opened for writing, which creates or empties it
CentroidsOpen(s, outcome) ==
    /\ cen_pc[s] = "download_file"
    /\ IF outcome = "raise"
       THEN /\ cen_pc' = [cen_pc EXCEPT ![s] = "idle"]
            /\ cen_result' = [cen_result EXCEPT ![s] = CallEnds("raised", cen_file)]
            /\ UNCHANGED <<cen_file, cen_downloaded>>
       ELSE /\ cen_pc' = [cen_pc EXCEPT ![s] = "next_chunk"]
            /\ cen_file' = "partial"
            /\ cen_downloaded' = [cen_downloaded EXCEPT ![s] = TRUE]
            /\ UNCHANGED cen_result
    /\ UNCHANGED <<folder_id, cen_seen, cen_after, cen_succeeded, cen_calls, modVars, stVars, rdVars, dlVars, notLdr>>

\* the file after one writer has written its last chunk: whole, unless another session
\* that emptied it is still writing
FileWhenDone(s) ==
    IF \E o \in Sessions \ {s} : cen_pc[o] = "next_chunk"
    THEN {"partial", "complete"}
    ELSE {"complete"}

\* google_drive.py 100-104 and lines 97-102: the chunks are written and the path
\* returned, or a chunk request raises and the file stays as far as it was written
CentroidsChunks(s, outcome) ==
    /\ cen_pc[s] = "next_chunk"
    /\ cen_pc' = [cen_pc EXCEPT ![s] = "idle"]
    /\ IF outcome = "raise"
       THEN /\ cen_result' = [cen_result EXCEPT ![s] = CallEnds("raised", cen_file)]
            /\ UNCHANGED <<cen_file, cen_succeeded>>
       ELSE \E after \in FileWhenDone(s) :
            /\ cen_file' = after
            /\ cen_result' = [cen_result EXCEPT ![s] = CallEnds("path", after)]
            /\ cen_succeeded' = TRUE
    /\ UNCHANGED <<folder_id, cen_seen, cen_downloaded, cen_after, cen_calls, modVars, stVars, rdVars, dlVars, notLdr>>

InitCentroids ==
    /\ SimIdle /\ AppIdle /\ WilcoxonIdle /\ FriedmanIdle /\ ValidationIdle /\ MetricsIdle
    /\ HasService \/ HasNoService
    /\ folder \in CentroidFolders
    /\ dest_file = "absent" /\ dpc = "idle" /\ files = EmptyFolder /\ chunks = 0
    /\ dl_result = "no_call"
    /\ ModelIdle /\ SimTabIdle /\ RealDataIdle
    /\ folder_id \in BOOLEAN
    /\ cen_file \in {"absent", "complete"}
    /\ cen_pc = [s \in Sessions |-> "idle"]
    /\ cen_seen = [s \in Sessions |-> "nothing"]
    /\ cen_downloaded = [s \in Sessions |-> FALSE]
    /\ cen_after = [s \in Sessions |-> FALSE]
    /\ cen_result = [s \in Sessions |-> NoCentroidsCall]
    /\ cen_succeeded = FALSE
    /\ cen_calls = 0

NextCentroids ==
    \E s \in Sessions :
        \/ CentroidsStart(s)
        \/ CentroidsExists(s)
        \/ \E outcome \in {"ok", "raise"} : CentroidsList(s, outcome)
        \/ \E outcome \in {"ok", "raise"} : CentroidsOpen(s, outcome)
        \/ \E outcome \in {"done", "raise"} : CentroidsChunks(s, outcome)

SpecCentroids == InitCentroids /\ [][NextCentroids]_vars

-----------------------------------------------------------------------------
(* utils/data_loader.py: load_model_from_drive *)

\* variant: an error of os.unlink leaves the function in place of what the try block left with
AfterFinallyUnlinkError(pending, unlink) == IF unlink = "raise" THEN "raised_unlink" ELSE pending

\* lines 68-75: the finally block swallows every Exception of os.unlink, so the call
\* ends with what the try block was leaving with
AfterFinally(pending, unlink) == pending

\* lines 38-50: a cached model is handed out; else the service is asked for, folder_id
\* read and the file name looked up in GOOGLE_DRIVE_FILE_MAP
LoadModelStart(key_known) ==
    /\ mod_pc = "idle"
    /\ mod_calls < MaxCalls
    /\ mod_calls' = mod_calls + 1
    /\ tmp_file' = "none"
    /\ unlink_tried' = FALSE
    /\ mod_pending' = "nothing"
    /\ IF mod_cache
       THEN /\ mod_result' = "model"
            /\ UNCHANGED mod_pc
       ELSE IF drive_result # "GoogleDriveService"
       THEN /\ mod_result' = "stopped"
            /\ UNCHANGED mod_pc
       ELSE IF ~folder_id \/ ~key_known
       THEN /\ mod_result' = "raised"
            /\ UNCHANGED mod_pc
       ELSE /\ mod_result' = "running"
            /\ mod_pc' = "NamedTemporaryFile"
    /\ UNCHANGED <<mod_cache, cenVars, stVars, rdVars, dlVars, notLdr>>

\* lines 54-55: the temporary file is created and closed, and kept (delete=False)
CreateTemp(outcome) ==
    /\ mod_pc = "NamedTemporaryFile"
    /\ IF outcome = "raise"
       THEN /\ mod_pc' = "idle"
            /\ mod_result' = "raised"
            /\ UNCHANGED tmp_file
       ELSE /\ mod_pc' = "download"
            /\ tmp_file' = "empty"
            /\ UNCHANGED mod_result
    /\ UNCHANGED <<unlink_tried, mod_pending, mod_cache, mod_calls, cenVars, stVars, rdVars, dlVars, notLdr>>

\* lines 58-61: download_file_by_name writes the temporary file and returns its path,
\* returns None (st.error, st.stop) when the first page has no such name, or raises
DownloadModel(outcome) ==
    /\ mod_pc = "download"
    /\ CASE outcome = "list_raises" ->
              /\ mod_pc' = "finally" /\ mod_pending' = "raised"
              /\ UNCHANGED tmp_file
         [] outcome = "chunk_raises" ->
              /\ FirstPage(folder).wanted_at > 0
              /\ mod_pc' = "finally" /\ mod_pending' = "raised"
              /\ tmp_file' = "partial"
         [] outcome = "ok" ->
              IF FirstPage(folder).wanted_at > 0
              THEN /\ mod_pc' = "joblib.load" /\ tmp_file' = "complete"
                   /\ UNCHANGED mod_pending
              ELSE /\ mod_pc' = "finally" /\ mod_pending' = "stopped"
                   /\ UNCHANGED tmp_file
    /\ UNCHANGED <<unlink_tried, mod_result, mod_cache, mod_calls, cenVars, stVars, rdVars, dlVars, notLdr>>

\* lines 64-67: joblib is imported and the model loaded and returned, or this raises
LoadModel(outcome) ==
    /\ mod_pc = "joblib.load"
    /\ mod_pc' = "finally"
    /\ mod_pending' = IF outcome = "raise" THEN "raised" ELSE "model"
    /\ UNCHANGED <<tmp_file, unlink_tried, mod_result, mod_cache, mod_calls, cenVars, stVars, rdVars, dlVars,
                   notLdr>>

\* lines 68-75 and 38: os.unlink(tmp_path) removes the file or raises; the call ends,
\* and st.cache_resource keeps a returned model
Finally(unlink) ==
    /\ mod_pc = "finally"
    /\ mod_pc' = "idle"
    /\ unlink_tried' = TRUE
    /\ tmp_file' = IF unlink = "raise" THEN tmp_file ELSE "removed"
    /\ mod_result' = AfterFinally(mod_pending, unlink)
    /\ mod_cache' = (AfterFinally(mod_pending, unlink) = "model")
    /\ UNCHANGED <<mod_pending, mod_calls, cenVars, stVars, rdVars, dlVars, notLdr>>

InitModel ==
    /\ SimIdle /\ AppIdle /\ WilcoxonIdle /\ FriedmanIdle /\ ValidationIdle /\ MetricsIdle
    /\ HasService \/ HasNoService
    /\ folder \in CentroidFolders
    /\ dest_file = "absent" /\ dpc = "idle" /\ files = EmptyFolder /\ chunks = 0
    /\ dl_result = "no_call"
    /\ folder_id \in BOOLEAN
    /\ cen_file = "absent"
    /\ cen_pc = [s \in Sessions |-> "idle"]
    /\ cen_seen = [s \in Sessions |-> "nothing"]
    /\ cen_downloaded = [s \in Sessions |-> FALSE]
    /\ cen_after = [s \in Sessions |-> FALSE]
    /\ cen_result = [s \in Sessions |-> NoCentroidsCall]
    /\ cen_succeeded = FALSE
    /\ cen_calls = 0
    /\ ModelIdle /\ SimTabIdle /\ RealDataIdle

NextModel ==
    \/ \E key_known \in BOOLEAN : LoadModelStart(key_known)
    \/ \E outcome \in {"ok", "raise"} : CreateTemp(outcome)
    \/ \E outcome \in {"ok", "list_raises", "chunk_raises"} : DownloadModel(outcome)
    \/ \E outcome \in {"ok", "raise"} : LoadModel(outcome)
    \/ \E unlink \in {"ok", "raise"} : Finally(unlink)

SpecModel == InitModel /\ [][NextModel]_vars

-----------------------------------------------------------------------------
(* app.py: the simulation tab *)

MaxPresses == 3   \* most presses of "Realizar Simulación" followed

\* utils.helpers.value_is_zero: the value, or every value of the list, is 0
value_is_zero(values) == \A i \in DOMAIN values : values[i] = 0

\* the codes tried for the four admission diagnoses and the respiratory insufficiency
DiagnosisInputs == [1..4 -> {0, 1}]

\* variant: one of the two checks is enough
FieldsOkEither(diag_ok, insuf_ok) == diag_ok \/ insuf_ok

\* line 479: if diag_ok and insuf_ok
FieldsOk(diag_ok, insuf_ok) == diag_ok /\ insuf_ok

\* lines 462-474: the warnings for empty diagnoses and for no respiratory insufficiency
Warnings(diag_ok, insuf_ok) ==
    (IF diag_ok THEN {} ELSE {"diagnosticos"}) \cup (IF insuf_ok THEN {} ELSE {"insuficiencia"})

\* lines 482-496 with experiment.py 110-130: run_experiment gives one row per run
ExperimentResult(n_runs, press) == [rows |-> n_runs, press |-> press]

\* a pass in which the button was not pressed: nothing of 337-341 and 460-550 runs
SimTabPassIdle ==
    /\ sim_pass # NoPass
    /\ sim_pass' = NoPass
    /\ UNCHANGED <<df_result, sim_sample_size, prediction, sim_presses, cenVars, modVars,
                   rdVars, dlVars, notLdr>>

\* a pass in which the button was pressed: lines 337-341 store the number typed in,
\* lines 460-550 check the fields, run the simulation, predict, save the CSV and store
\* the table
SimTabPress(corridas_sim_input, diags, resp_insuf, simulation, predict, to_csv) ==
    LET diag_ok == ~value_is_zero(diags)
        insuf_ok == ~value_is_zero(<<resp_insuf>>)
        run == FieldsOk(diag_ok, insuf_ok)
        press == sim_presses + 1
        failed == IF ~run THEN "nothing"
                  ELSE IF simulation = "raise" THEN "simulation"
                  ELSE IF to_csv = "raise" THEN "to_csv"
                  ELSE "nothing"
        stored == run /\ failed = "nothing"
        predicted == run /\ simulation = "ok" /\ predict = "ok"
    IN  /\ sim_presses < MaxPresses
        /\ sim_presses' = press
        /\ sim_sample_size' = corridas_sim_input
        /\ df_result' = IF stored THEN ExperimentResult(corridas_sim_input, press)
                        ELSE df_result
        /\ prediction' = IF predicted THEN [set |-> TRUE, press |-> press] ELSE prediction
        /\ sim_pass' = [pressed |-> TRUE, warned |-> Warnings(diag_ok, insuf_ok),
                        ran |-> run, failed |-> failed,
                        prediction_failed |-> (run /\ simulation = "ok" /\ predict = "raise")]
        /\ UNCHANGED <<cenVars, modVars, rdVars, dlVars, notLdr>>

InitSimTab ==
    /\ SimIdle /\ AppIdle /\ WilcoxonIdle /\ FriedmanIdle /\ ValidationIdle /\ MetricsIdle
    /\ DriveIdle /\ DownloadIdle /\ CentroidsIdle /\ ModelIdle /\ RealDataIdle
    /\ df_result = NoResult
    /\ sim_sample_size \in 1..MaxRuns
    /\ prediction = NoPrediction
    /\ sim_pass = NoPass
    /\ sim_presses = 0

NextSimTab ==
    \/ SimTabPassIdle
    \/ \E n \in 1..MaxRuns, diags \in DiagnosisInputs, resp_insuf \in {0, 1},
          simulation \in {"ok", "raise"}, predict \in {"ok", "raise"},
          to_csv \in {"ok", "raise"} :
            SimTabPress(n, diags, resp_insuf, simulation, predict, to_csv)

SpecSimTab == InitSimTab /\ [][NextSimTab]_vars

-----------------------------------------------------------------------------
(* app.py: the real-data tab *)

MaxRow == 1       \* largest row index of the patient table
MaxPasses == 4    \* most passes over the real-data tab followed

\* df_selection[0] if df_selection else None
Selections == {PyNoneRow} \cup {[row |-> i] : i \in 0..MaxRow}

\* variant: the re-run button is ignored
ShouldSimulateOnChange(prev, current_selection, rerun_sim_btn) == prev # current_selection

\* line 615: (prev_selection != current_selection) or rerun_sim_btn
ShouldSimulate(prev, current_selection, rerun_sim_btn) ==
    prev # current_selection \/ rerun_sim_btn

\* line 605: disable_rerun_btn
DisableRerun(frame) == frame.empty

\* lines 631-642: the summary table of the simulation of one row
SummaryOf(row, pass) == [empty |-> FALSE, row |-> row, pass |-> pass]

\* lines 596-644 of one script pass: the selection is read, the re-run button drawn,
\* and for a selected row that is new, or with the button pressed, the row is
\* simulated, the patient data prepared and the summary stored; prev_selection is set
\* at the end. outcome names the call that raises, if one does.
RealDataPass(current_selection, rerun_sim_btn, outcome) ==
    LET run == /\ current_selection # PyNoneRow
               /\ ShouldSimulate(prev_selection, current_selection, rerun_sim_btn)
        ended == IF run THEN outcome ELSE "ok"
    IN  /\ rd_passes < MaxPasses
        /\ rd_passes' = rd_passes + 1
        /\ rerun_sim_btn => rerun_enabled
        /\ rerun_enabled' = ~DisableRerun(df_sim_real_data)
        /\ patient_data' = IF run /\ ended \in {"ok", "build_df_for_stats"}
                           THEN current_selection ELSE patient_data
        /\ df_sim_real_data' = IF run /\ ended = "ok"
                               THEN SummaryOf(current_selection, rd_passes')
                               ELSE df_sim_real_data
        /\ prev_selection' = IF current_selection # PyNoneRow /\ ended = "ok"
                             THEN current_selection ELSE prev_selection
        /\ rd_pass' = [selection |-> current_selection, pressed |-> rerun_sim_btn,
                       ran |-> run, ended |-> ended,
                       disabled |-> DisableRerun(df_sim_real_data)]
        /\ UNCHANGED <<cenVars, modVars, stVars, dlVars, notLdr>>

RealDataOutcomes ==
    {"ok", "simulate_true_data", "prepare_patient_data_for_prediction", "build_df_for_stats"}

InitRealData ==
    /\ SimIdle /\ AppIdle /\ WilcoxonIdle /\ FriedmanIdle /\ ValidationIdle /\ MetricsIdle
    /\ DriveIdle /\ DownloadIdle /\ CentroidsIdle /\ ModelIdle /\ SimTabIdle
    /\ RealDataIdle

NextRealData ==
    \E current_selection \in Selections, rerun_sim_btn \in BOOLEAN,
       outcome \in RealDataOutcomes :
        RealDataPass(current_selection, rerun_sim_btn, outcome)

SpecRealData == InitRealData /\ [][NextRealData]_vars

-----------------------------------------------------------------------------
(* Properties of the stage simulator and the replication driver *)

AfterLoop == {"uci_calc", "t_pre_vam", "t_vam", "t_post_vam", "t_post_uci", "sr_return"}
AfterCalc == AfterLoop \ {"uci_calc"}

\* C1: every result one run returns has pre-VAM + VAM + post-VAM equal to the UCI
\* stay, and so has the result dict from the moment it is written.
C1_SumIsUciStay ==
    /\ \A i \in DOMAIN returned :
          returned[i]["Tiempo Pre VAM"] + returned[i]["Tiempo VAM"]
              + returned[i]["Tiempo Post VAM"] = returned[i]["Estadia UCI"]
    /\ pc \in AfterCalc =>
          experiment.result["Tiempo Pre VAM"] + experiment.result["Tiempo VAM"]
              + experiment.result["Tiempo Post VAM"] = experiment.result["Estadia UCI"]

\* a returned result in which both the pre-VAM and the post-VAM share are positive
C1_Witness ==
    \E i \in DOMAIN returned :
        returned[i]["Tiempo Pre VAM"] > 0 /\ returned[i]["Tiempo Post VAM"] > 0

\* C2: every result single_run returns has its five fields >= 0, whatever percent the
\* Experiment holds.
C2_ReturnedNonNegative ==
    \A i \in DOMAIN returned : \A k \in Labels : returned[i][k] >= 0

\* a result returned for a percent outside 0..100 with time left besides ventilation
C2_Witness ==
    /\ experiment.porciento \notin 0..100
    /\ \E i \in DOMAIN returned : returned[i]["Estadia UCI"] > returned[i]["Tiempo VAM"]

\* C3: at most 1000 draws of the ventilation time; drawing goes on only after a draw
\* above the UCI stay, stops at the first draw within it, and after 1000 failed draws
\* vam is the UCI stay and the pre-VAM and post-VAM times are 0; vam <= uci always.
C3_RetryThenClamp ==
    /\ attempts <= MaxAttempts
    /\ (pc = "uci_vam" /\ attempts > 0) => vam > uci
    /\ pc \in AfterLoop =>
          /\ vam <= uci
          /\ attempts \in 1..MaxAttempts
          /\ clamped => (attempts = MaxAttempts /\ vam = uci)
    /\ (pc \in AfterCalc /\ clamped) => (pre_vam = 0 /\ post_vam = 0)
    /\ \A i \in DOMAIN returned : returned[i]["Tiempo VAM"] <= returned[i]["Estadia UCI"]

\* a run that ended after all 1000 draws failed
C3_Witness == pc = "sr_return" /\ clamped /\ attempts = MaxAttempts

\* C4 as stated: the pre-VAM time is the floor of (uci - vam) * percent / 100.
C4_PreVamIsFloor ==
    pc \in AfterCalc =>
        /\ pre_vam = ((uci - vam) * experiment.porciento) \div 100
        /\ post_vam = uci - pre_vam - vam

\* C4 amended: the pre-VAM time is (uci - vam) * percent / 100 truncated toward zero,
\* which is the floor when the product is >= 0 and the ceiling when it is negative;
\* the post-VAM time is uci - pre_vam - vam.
C4_PreVamIsTruncation ==
    pc \in AfterCalc =>
        LET n == (uci - vam) * experiment.porciento IN
        /\ uci >= vam /\ vam >= 0
        /\ n >= 0 => (100 * pre_vam <= n /\ n < 100 * (pre_vam + 1))
        /\ n < 0 => (100 * (pre_vam - 1) < n /\ n <= 100 * pre_vam)
        /\ post_vam = uci - pre_vam - vam

\* a run with a negative percent where truncation and floor differ
C4_Witness ==
    /\ pc = "sr_return"
    /\ experiment.porciento < 0
    /\ ((uci - vam) * experiment.porciento) % 100 # 0
    /\ pre_vam = 0

\* C5: a completed call returns a table of exactly n_reps rows, row i being what run i
\* returned, with the five stage-variable columns when n_reps >= 1.
C5_OneRowPerRun ==
    pc = "done" =>
        /\ df.made
        /\ Len(df.rows) = n_reps
        /\ Len(returned) = n_reps
        /\ \A i \in DOMAIN df.rows : df.rows[i] = returned[i]
        /\ n_reps >= 1 => df.columns = EXPERIMENT_VARIABLES_LABELS

\* a completed call of several runs whose rows differ
C5_Witness ==
    pc = "done" /\ n_reps >= 2 /\ df.rows[1] # df.rows[2]

RunsStarted == rep + (IF pc \in AfterLoop \cup {"uci_post_uci", "uci_uci", "uci_vam"} THEN 1 ELSE 0)

\* C7 as stated: a completed call of the driver has invoked the classifier exactly once.
C7_ClassifierOnce ==
    (pc = "done" /\ n_reps >= 1) => Len(clusters_used) = 1

\* C7 amended: the classifier is invoked once per run (n_reps times in a completed
\* call), and every invocation of one call yields the same cluster id.
C7_ClassifierPerRun ==
    /\ pc # "raised" => Len(clusters_used) = RunsStarted
    /\ pc = "done" => Len(clusters_used) = n_reps
    /\ \A i, j \in DOMAIN clusters_used : clusters_used[i] = clusters_used[j]
    /\ pc \in AfterLoop \cup {"uci_post_uci", "uci_uci", "uci_vam"} =>
          cluster = clusters_used[1]

\* a completed call that invoked the classifier more than once
C7_Witness == pc = "done" /\ Len(clusters_used) >= 2

\* C8: a call in which a run failed returns no table, and a returned table never has
\* fewer rows than n_reps.
C8_FailsAsAWhole ==
    /\ pc = "raised" => df = NoTable
    /\ df.made => (pc = "done" /\ Len(df.rows) = n_reps)

\* a call that failed in a later run, after an earlier run had produced its row
C8_Witness == pc = "raised" /\ Len(results) >= 1 /\ ~df.made

\* C9 as stated: every field of the Experiment is as the constructor left it.
C9_NothingMutated == experiment = constructed

\* C9 amended: the twelve parameters are as the constructor left them; the result field
\* is replaced at the start of every run and written by the run.
C9_ParametersKept ==
    /\ Params(experiment) = Params(constructed)
    /\ (rep > 0 \/ pc \notin {"mr_loop", "raised", "done"}) =>
          DOMAIN experiment.result = Labels

\* after a completed run the parameters are intact and the result has been written
C9_Witness ==
    /\ Len(returned) >= 1
    /\ experiment.result # constructed.result
    /\ \E k \in Labels : experiment.result[k] > 0

-----------------------------------------------------------------------------
(* Properties of the assembled table *)

\* C14: every column of the table multiple_replication returns has the same dtype:
\* int64 when as_int is true, float64 when it is false.
C14_UniformDtype ==
    df.made =>
        /\ DOMAIN df.dtypes = {df.columns[j] : j \in DOMAIN df.columns}
        /\ \A k \in DOMAIN df.dtypes : df.dtypes[k] = IF as_int THEN "int64" ELSE "float64"
        /\ \A k, l \in DOMAIN df.dtypes : df.dtypes[k] = df.dtypes[l]

\* a table of float columns returned for as_int = False
C14_Witness ==
    /\ pc = "done" /\ ~as_int /\ n_reps >= 1
    /\ Len(df.columns) = 5
    /\ \A k \in Labels : df.dtypes[k] = "float64"

\* float(value) raises ValueError or TypeError
NotConvertible(value) == value.kind \in {"text", "none"}

\* what lines 114-125 make of a value that does not end the call
Converted(value) == IF value.kind = "int" THEN value.n ELSE 0

-----------------------------------------------------------------------------
(* Properties of the seed configuration *)

SameInputsReseeded ==
    /\ pc \in {"done", "raised"}
    /\ last_call.valid
    /\ reseeded
    /\ last_call.seed = global_sim_seed
    /\ last_call.params = Params(constructed)
    /\ last_call.n = n_reps

\* C6: a simulation call made in a pass that reseeded the random source ends as the
\* latest earlier call did that was made under the same seed with the same patient
\* parameters and number of runs: both raise, or both return the same table, row for
\* row.
C6_SameSeedSameTable ==
    SameInputsReseeded => (last_call.raised = (pc = "raised") /\ last_call.table = df)

\* a repeated simulation of several runs under the same seed
C6_Witness == SameInputsReseeded /\ pc = "done" /\ n_reps >= 2 /\ df.rows[1] # df.rows[2]

-----------------------------------------------------------------------------
(* Properties of the Wilcoxon comparison *)

\* both experiments have rows and agree on every row they both have
AllPairedDifferencesZero ==
    /\ Len(df_experiment1.vals) >= 1 /\ Len(df_experiment2.vals) >= 1
    /\ \A i \in 1..MinOf(Len(df_experiment1.vals), Len(df_experiment2.vals)) :
          df_experiment1.vals[i] = df_experiment2.vals[i]

\* C10: when the button is pressed and every paired difference of the two samples, cut
\* to their common length, is zero, the comparison is refused with the zero-differences
\* error, shows no statistic and stores no test.
C10_DegenerateRejected ==
    [][(shown'.kind # "nothing" /\ AllPairedDifferencesZero) =>
          /\ \/ shown'.kind = "error_zero_differences"
             \/ shown'.kind = "exception" /\ shown'.error = "DegenerateInput"
          /\ wilcoxon_test' = wilcoxon_test]_vars

\* the button was pressed on samples of different length with an identical common part
C10_Witness ==
    /\ shown.kind = "exception"
    /\ Len(df_experiment1.vals) > Len(df_experiment2.vals)
    /\ AllPairedDifferencesZero

\* C11: the two samples handed to the test are the first min(len1, len2) rows of the
\* two uploaded samples, in their order, so they have equal length and the shorter one
\* is whole; a cut is reported with |len1 - len2| rows naming the longer sample, and
\* nothing is reported when the lengths are equal.
C11_HeadTruncationReported ==
    shown.kind \in {"result", "exception"} =>
        LET l1 == Len(df_experiment1.vals)
            l2 == Len(df_experiment2.vals)
            m == MinOf(l1, l2)
        IN  /\ Len(shown.x) = m /\ Len(shown.y) = m
            /\ shown.x = SubSeq(df_experiment1.vals, 1, m)
            /\ shown.y = SubSeq(df_experiment2.vals, 1, m)
            /\ l1 = l2 <=> shown.info.cut = "none"
            /\ l1 > l2 <=> shown.info.cut = "experimento 1"
            /\ l1 < l2 <=> shown.info.cut = "experimento 2"
            /\ shown.info.len_dif = Abs(l1 - l2)

\* a test that ran on a second sample cut to the length of the first
C11_Witness ==
    /\ shown.kind = "result"
    /\ Len(df_experiment1.vals) < Len(df_experiment2.vals)
    /\ shown.info.cut = "experimento 2"
    /\ shown.info.len_dif >= 1

-----------------------------------------------------------------------------
(* Properties of the Friedman comparison *)

\* the Friedman container shows the outcome of a test that was invoked
FriedmanInvoked == fshown.kind \in {"result", "exception"}

\* C12: the Friedman test is invoked on at least 3 samples only; a press with 0, 1 or
\* 2 uploaded experiments, or with fewer than 3 samples left after alignment, shows a
\* message, produces no statistic and leaves the stored test as it was.
C12_AtLeastThreeSamples ==
    [][/\ FriedmanInvoked' => Len(fshown'.samples) >= 3
       /\ (fshown'.kind # "nothing" /\ Len(experiment_dataframes) < 3) =>
             /\ fshown'.kind \in {"warning_no_data", "warning_few_samples", "error_few_valid"}
             /\ friedman_test_result' = friedman_test_result
       /\ fshown'.kind = "error_few_valid" => friedman_test_result' = friedman_test_result
       /\ friedman_test_result'.set => friedman_test_result'.k >= 3]_vars

\* the button was pressed with two uploaded experiments while an earlier test is stored
C12_Witness ==
    /\ fshown.kind = "warning_few_samples"
    /\ Len(experiment_dataframes) = 2
    /\ friedman_test_result.set

\* C13: every sample handed to the Friedman test is the first m rows of the uploaded
\* sample, m being the smallest row count of the uploaded samples, so all have length
\* m; m is reported when the uploaded lengths differ, and nothing is reported when
\* they are equal.
C13_CommonLengthReported ==
    FriedmanInvoked =>
        LET in == [i \in DOMAIN experiment_dataframes |-> experiment_dataframes[i].vals]
            m == MinLen(in)
        IN  /\ \A i \in DOMAIN in : m <= Len(in[i])
            /\ \E i \in DOMAIN in : m = Len(in[i])
            /\ DOMAIN fshown.samples = DOMAIN in
            /\ \A i \in DOMAIN in :
                  Len(fshown.samples[i]) = m /\ fshown.samples[i] = SubSeq(in[i], 1, m)
            /\ (\E i, j \in DOMAIN in : Len(in[i]) # Len(in[j])) =>
                  (fshown.info.reported /\ fshown.info.rows = m)
            /\ (\A i, j \in DOMAIN in : Len(in[i]) = Len(in[j])) => ~fshown.info.reported

\* a test that ran on samples of different lengths, cut to their first row
C13_Witness ==
    /\ fshown.kind = "result"
    /\ \E i, j \in DOMAIN experiment_dataframes :
          Len(experiment_dataframes[i].vals) > Len(experiment_dataframes[j].vals)
    /\ fshown.info.reported /\ fshown.info.rows >= 1
    /\ \E i \in DOMAIN experiment_dataframes :
          fshown.samples[i] # experiment_dataframes[i].vals

-----------------------------------------------------------------------------
(* Properties of the model validation tab *)

\* every part of the stored record comes from the run that stored it
FromOneRun(v) ==
    /\ v.true_data.run = v.timestamp /\ v.true_data.seed = v.seed
    /\ v.simulation_data = [run |-> v.timestamp, n_runs |-> v.n_runs, seed |-> v.seed]
    /\ v.simulation_metric = [true_run |-> v.timestamp, sim_run |-> v.timestamp]
    /\ v.figs = [metric_run |-> v.timestamp, true_run |-> v.timestamp, sim_run |-> v.timestamp]
    /\ v.figs_bytes = v.figs

-----------------------------------------------------------------------------
(* Properties of the validation metrics and their rendering *)

\* every run of patient i equals the patient's true value, for variable v
RunsEqualTruth(i, v) ==
    \A j \in 1..NRuns(simulation_data) : simulation_data[i][j][v] = true_data[i][v]

\* the runs of patient i are all equal, for variable v
ZeroVariance(i, v) ==
    \A j, l \in 1..NRuns(simulation_data) : simulation_data[i][j][v] = simulation_data[i][l][v]

\* C17: the Coverage% of every variable is between 0 and 100, a multiple of 100 /
\* patients; it is 100 when the mean of every patient equals the true value, so when
\* all runs equal the true value; a patient whose runs are all equal counts exactly
\* when they equal the true value; the progress bar shows its whole part.
C17_CoverageInRange ==
    simulation_metric.evaluated =>
        \A v \in 1..NVariables(true_data) :
            LET c == simulation_metric.coverage_percentage[v]
                p == NPatients(true_data)
            IN  /\ c.den = p /\ 0 <= c.num /\ c.num <= 100 * c.den
                /\ c.num % 100 = 0
                /\ (\A i \in 1..p : Dev(true_data, simulation_data, i, v) = 0) =>
                      c.num = 100 * c.den
                /\ (\A i \in 1..p : RunsEqualTruth(i, v)) => c.num = 100 * c.den
                /\ (\A i \in 1..p : ZeroVariance(i, v)) =>
                      c.num = 100 * Cardinality({i \in 1..p : RunsEqualTruth(i, v)})
                /\ rendered.done /\ rendered.of_evaluated =>
                      /\ rendered.coverage[v].progress \in 0..100
                      /\ rendered.coverage[v].progress * c.den <= c.num
                      /\ c.num < (rendered.coverage[v].progress + 1) * c.den

\* two patients with different true values, several runs each, all equal to the true
\* value: the coverage shown is 100
C17_Witness ==
    /\ simulation_metric.evaluated /\ rendered.done /\ rendered.of_evaluated
    /\ NPatients(true_data) >= 2 /\ NRuns(simulation_data) >= 2
    /\ true_data[1][1] # true_data[2][1]
    /\ \A i \in 1..NPatients(true_data) : RunsEqualTruth(i, 1)
    /\ Len(rendered.coverage) > 0 /\ rendered.coverage[1].progress = 100

\* the number of pairs with a true value other than 0
NonZeroCount == Len(NonZeroPairs(true_data))

\* C18: MAPE is not a number exactly when every true value is 0, and is >= 0 otherwise;
\* pairs with a true value of 0 do not count: when every other pair has its mean equal
\* to the true value MAPE is 0, and with one such pair MAPE is 100 |mean - true| / true
\* of that pair; a missing or not-a-number MAPE is shown as "N/A", any other as a number.
C18_MapeSkipsZeros ==
    /\ simulation_metric.evaluated =>
          LET mape == simulation_metric.error_margin.mape
              nz == NonZeroPairs(true_data)
              m == NRuns(simulation_data)
          IN  /\ mape.nan <=> (\A i \in 1..NPatients(true_data) :
                                 \A v \in 1..NVariables(true_data) : true_data[i][v] = 0)
              /\ ~mape.nan => (mape.num >= 0 /\ mape.den > 0)
              /\ (~mape.nan /\ \A k \in DOMAIN nz :
                                   Dev(true_data, simulation_data, nz[k][1], nz[k][2]) = 0) =>
                    mape.num = 0
              /\ Len(nz) = 1 =>
                    mape.num * m * true_data[nz[1][1]][nz[1][2]] =
                        100 * Abs(Dev(true_data, simulation_data, nz[1][1], nz[1][2])) * mape.den
    /\ rendered.done =>
          /\ (rendered.mape.text = "N/A") <=>
                (~rendered.of_evaluated \/ simulation_metric.error_margin.mape.nan)
          /\ rendered.mape.text \in {"N/A", "number"}
          /\ rendered.mape.text = "number" => rendered.mape.value >= 0

\* metrics evaluated on true values that are all 0 while the simulation is not: MAPE
\* is not a number and is shown as "N/A"
C18_Witness ==
    /\ simulation_metric.evaluated /\ rendered.done /\ rendered.of_evaluated
    /\ NonZeroCount = 0
    /\ simulation_metric.error_margin.mae.num > 0
    /\ simulation_metric.error_margin.mape.nan
    /\ rendered.mape.text = "N/A" /\ rendered.mae.text = "number"

-----------------------------------------------------------------------------
(* Properties of the Google Drive service *)

\* C19: no call of get_drive_service raises; a call returns a GoogleDriveService when
\* the service_account section is filled, the Google API packages are installed and
\* credentials and client are built, and None in every other case.
C19_NeverRaises ==
    /\ drive_result # "raised"
    /\ drive_calls > 0 =>
          /\ drive_result \in {"None", "GoogleDriveService"}
          /\ drive_result = "GoogleDriveService" <=>
                (secrets = "service_account" /\ libs_installed /\ auth = "ok")
          /\ drive_cache.set /\ drive_cache.value = drive_result

\* a call that returned None because building the client failed
C19_Witness ==
    /\ drive_calls > 0 /\ drive_result = "None"
    /\ secrets = "service_account" /\ libs_installed /\ auth = "build_raises"

\* C20: a call of download_file_by_name that returns has downloaded to dest and
\* returned dest whenever the folder holds a non-trashed entry with exactly that name;
\* it returns None only when the folder holds no such entry, and then dest is as it was.
C20_FoundWheneverPresent ==
    dpc = "returned" =>
        /\ folder.wanted_at > 0 => (dl_result = "dest" /\ dest_file = "complete")
        /\ dl_result = "None" => (folder.wanted_at = 0 /\ dest_file \in {"absent", "old"})

\* what the code does keep: None comes without touching dest, and never when the
\* first page lists the name
C20_NoneLeavesDest ==
    dl_result = "None" =>
        /\ dest_file \in {"absent", "old"}
        /\ ~(folder.wanted_at \in 1..PageSize)

\* None for a name the folder holds beyond its first page
C20_BeyondFirstPage ==
    /\ dpc = "returned" /\ dl_result = "None"
    /\ folder.wanted_at > PageSize

-----------------------------------------------------------------------------
(* Properties of the data loader *)

\* C21: a call of get_centroids_path opens the temp file for download only when it
\* found no file there, and a call begun after some call has returned its path
\* downloads nothing and ends, if it has ended, by returning the path.
C21_LoadedOnce ==
    \A s \in Sessions :
        /\ cen_downloaded[s] => cen_seen[s] = "absent"
        /\ cen_after[s] =>
              /\ ~cen_downloaded[s]
              /\ cen_pc[s] \in {"idle", "exists"}
              /\ cen_result[s].ended \in {"running", "path"}

\* a call that downloaded has returned, and a later call returned without downloading
C21_Witness ==
    \E s \in Sessions, o \in Sessions :
        /\ cen_downloaded[o] /\ cen_result[o].ended = "path"
        /\ cen_after[s] /\ cen_result[s].ended = "path" /\ ~cen_downloaded[s]

\* C30: a path returned by get_centroids_path is the path of a file that is there and
\* wholly written.
C30_ReturnedFileWhole ==
    \A s \in Sessions :
        cen_result[s].ended = "path" => cen_result[s].file = "complete"

\* a call returned the path of a file another session had only opened for writing
C30_ReturnedWhileWritten ==
    \E s \in Sessions, o \in Sessions :
        /\ cen_result[s].ended = "path" /\ cen_result[s].file = "partial"
        /\ ~cen_downloaded[s] /\ cen_pc[o] = "next_chunk"

\* what the code keeps: a returned path is never the path of a missing file
C30_ReturnedFileThere ==
    \A s \in Sessions :
        cen_result[s].ended = "path" => cen_result[s].file \in {"partial", "complete"}

\* C22: when a call of load_model_from_drive that created its temporary file has ended,
\* os.unlink was called on the file, and the call ended with what its try block left
\* with (the model, the stop after a download that found nothing, or the exception of
\* the download or the load), whether or not the unlink worked.
C22_TempFileRemoved ==
    (mod_pc = "idle" /\ tmp_file # "none") =>
        /\ unlink_tried
        /\ mod_result = mod_pending
        /\ mod_result \in {"model", "stopped", "raised"}

\* a model was returned although deleting the temporary file failed
C22_Witness ==
    /\ mod_pc = "idle" /\ unlink_tried
    /\ tmp_file = "complete" /\ mod_result = "model"

-----------------------------------------------------------------------------
(* The order of stages, draws and rows *)

\* the result dict holds what line 44-51 of Simulation.uci computed
ResultAsComputed ==
    /\ experiment.result["Tiempo Pre VAM"] = pre_vam
    /\ experiment.result["Tiempo VAM"] = vam
    /\ experiment.result["Tiempo Post VAM"] = post_vam
    /\ experiment.result["Estadia UCI"] = uci
    /\ experiment.result["Estadia Post UCI"] = post_uci

\* C23: the stages elapse in the order pre-VAM, VAM, post-VAM, post-ICU, each starting
\* at the clock value at which the one before ended; a run that ends has its clock at
\* pre_vam + vam + post_vam + post_icu = icu + post_icu, and through all stages the
\* result dict holds the values computed before the first stage elapsed.
C23_StagesInOrder ==
    /\ pc = "t_pre_vam" => now = 0
    /\ pc = "t_vam" => now = pre_vam
    /\ pc = "t_post_vam" => now = pre_vam + vam
    /\ pc = "t_post_uci" => (now = pre_vam + vam + post_vam /\ now = uci)
    /\ pc = "sr_return" =>
          (now = pre_vam + vam + post_vam + post_uci /\ now = uci + post_uci)
    /\ pc \in AfterCalc => ResultAsComputed

\* a run that ended after a pre-VAM, a post-VAM and a post-ICU stage of positive length
C23_Witness ==
    /\ pc = "sr_return"
    /\ pre_vam > 0 /\ post_vam > 0 /\ post_uci > 0

\* what one draw of a stage's sampler can give, as the simulator keeps it
DrawnFrom(stage) == {PyInt(h, 2) : h \in Draws(stage, cluster, rng)}

DrawingAt == {"uci_post_uci", "uci_uci", "uci_vam"}

\* C24: the stream is consumed only by the three samplers of a run and in this order:
\* one post-ICU draw, one ICU draw, then 1 to 1000 ventilation draws, each taking the
\* next value of the stream; a run begins drawing only after it was started by the
\* loop, which happens after the run before it has returned, and the run counter
\* stands still while a run draws.
C24_DrawOrder ==
    [][ /\ rng' # rng => pc \in DrawingAt
        /\ pc = "uci_post_uci" =>
              /\ pc' = "uci_uci" /\ rng' = Advance(rng) /\ attempts = 0
              /\ post_uci' \in DrawnFrom("post_uci") /\ UNCHANGED <<uci, vam>>
        /\ pc = "uci_uci" =>
              /\ pc' = "uci_vam" /\ rng' = Advance(rng) /\ attempts = 0
              /\ uci' \in DrawnFrom("uci") /\ UNCHANGED <<post_uci, vam>>
        /\ pc = "uci_vam" =>
              \/ /\ attempts < MaxAttempts
                 /\ pc' \in {"uci_vam", "uci_calc"} /\ rng' = Advance(rng)
                 /\ attempts' = attempts + 1
                 /\ vam' \in DrawnFrom("vam") /\ UNCHANGED <<post_uci, uci>>
              \/ /\ attempts = MaxAttempts
                 /\ pc' = "uci_calc" /\ rng' = rng /\ attempts' = attempts
        /\ pc' = "uci_calc" => attempts' \in 1..MaxAttempts
        /\ (pc' = "uci_post_uci" /\ pc # pc') => pc = "sr_cluster"
        /\ (pc' = "sr_cluster" /\ pc # pc') => pc = "mr_loop"
        /\ pc \in DrawingAt => rep' = rep
      ]_vars

\* the second run of a batch has finished drawing after more than one ventilation draw
C24_Witness ==
    /\ rep >= 1 /\ pc = "uci_calc" /\ attempts >= 2 /\ rng.seeded

Zeroed == [k \in Labels |-> 0]

BeforeCalc == {"sr_cluster", "uci_post_uci", "uci_uci", "uci_vam", "uci_calc"}

\* C25: a run starts with a result dict of exactly the five labels, all 0, which stays
\* so until the run stores its own five values; the dict a run returns holds the values
\* that run computed, and its row is the conversion of that dict; rows and returned
\* dicts already recorded are never changed afterwards, new ones come at the end.
C25_RowsIndependent ==
    [][ /\ (pc = "mr_loop" /\ pc' = "sr_cluster") => experiment'.result = Zeroed
        /\ pc \in BeforeCalc =>
              (DOMAIN experiment.result = Labels /\ experiment.result = Zeroed)
        /\ (pc = "sr_return" /\ pc' = "mr_loop") =>
              /\ ResultAsComputed
              /\ Len(results') = Len(results) + 1
              /\ results'[Len(results')] = ToRow(PyDict(experiment.result), as_int)
        /\ Len(results') >= Len(results)
        /\ \A i \in DOMAIN results : results'[i] = results[i]
        /\ \A i \in DOMAIN returned : returned'[i] = returned[i]
      ]_vars

\* a batch of two runs that ended with two different rows
C25_Witness ==
    /\ pc = "done" /\ Len(results) = 2 /\ results[1] # results[2]

-----------------------------------------------------------------------------
(* Properties of the simulation tab and the real-data tab *)

\* C26: a press runs the simulation only with no field warning, that is with a
\* diagnosis and a respiratory insufficiency chosen; a press with a warning runs no
\* simulation and leaves df_result; df_result changes only in a pass whose simulation
\* and CSV saving both worked, and then it does change, also when the prediction failed.
C26_RunOnlyWhenFieldsOk ==
    [][ /\ sim_pass'.ran => (sim_pass'.pressed /\ sim_pass'.warned = {})
        /\ (sim_pass'.pressed /\ sim_pass'.warned # {}) =>
              (~sim_pass'.ran /\ df_result' = df_result)
        /\ df_result' # df_result => (sim_pass'.ran /\ sim_pass'.failed = "nothing")
        /\ (sim_pass'.ran /\ sim_pass'.failed = "nothing") =>
              (df_result'.press = sim_presses' /\ df_result' # df_result)
      ]_vars

\* the table was replaced in a pass whose prediction failed
C26_Witness ==
    /\ sim_pass.pressed /\ sim_pass.ran /\ sim_pass.prediction_failed
    /\ df_result.press = sim_presses /\ df_result.rows > 0

\* C27: whenever df_result is not empty, sim_sample_size is its number of rows.
C27_SampleSizeIsRowCount ==
    df_result.rows > 0 => sim_sample_size = df_result.rows

\* what the code keeps: the two agree at the end of a pass that replaced the table
C27_AgreeWhenReplaced ==
    df_result.press = sim_presses => sim_sample_size = df_result.rows \/ df_result = NoResult

\* a table is stored and a later press with another number of runs was refused for its
\* empty fields
C27_StaleTable ==
    /\ df_result.rows > 0 /\ df_result.press < sim_presses
    /\ sim_pass.pressed /\ sim_pass.warned # {}
    /\ sim_sample_size # df_result.rows

\* the simulation is run exactly for a selected row that differs from prev_selection
\* or with the re-run button pressed
RunsExactlyWhenDue ==
    rd_pass'.ran <=>
        /\ rd_pass'.selection # PyNoneRow
        /\ rd_pass'.selection # prev_selection \/ rd_pass'.pressed

\* a pass with an unchanged selection and no press leaves the table and the patient data
QuietPassKeeps ==
    (rd_pass'.selection \in {PyNoneRow, prev_selection} /\ ~rd_pass'.pressed) =>
        UNCHANGED <<df_sim_real_data, patient_data>>

\* the button is drawn disabled exactly for an empty table
DisabledWhenEmpty == rd_pass'.disabled <=> df_sim_real_data.empty

-----------------------------------------------------------------------------
(* The stored validation *)

\* C29: a pass that finds a validation stored renders it with the n_runs and the seed
\* its simulation data was computed with and keeps it, unless the clear button was
\* pressed or the rendering failed, which both set it to None; no other step leaves
\* st.session_state.validation without a record once it has one.
C29_ShownUntilCleared ==
    [][ /\ (vpc = "idle" /\ validation.stored) =>
              /\ vshown'.caption = [n_runs |-> validation.simulation_data.n_runs,
                                    seed |-> validation.simulation_data.seed]
              /\ \/ vshown'.cached = "rendered" /\ validation' = validation
                 \/ vshown'.cached \in {"cleared", "failed"} /\ validation' = NoValidation
        /\ (validation.stored /\ ~validation'.stored) =>
              (vpc = "idle" /\ vshown'.cached \in {"cleared", "failed"})
      ]_vars

\* a stored validation was rendered in a pass whose sidebar seed and number of runs
\* are not the ones it was made with
C29_Witness ==
    /\ validation.stored /\ vshown.cached = "rendered"
    /\ validation.seed # global_sim_seed /\ validation.n_runs # n_runs_input
    /\ vshown.caption.seed = validation.seed

====
